---- MODULE Spec2Model ----
(***************************************************************************)
(* Threshold key sharing and key exchange of the citrate / lattice-v3      *)
(* Python SDKs: GF(2^8) arithmetic, Shamir secret sharing, ECDH key        *)
(* agreement and envelope encryption.                                      *)
(***************************************************************************)
EXTENDS Integers, Sequences, FiniteSets, TLC

VARIABLES
    exp_table,      \* GF256._exp_table: <<>> for None, else the list of 512 bytes
    log_table,      \* GF256._log_table: <<>> for None, else the list of 256 logs
    initialized,    \* GF256._initialized
    f_a, f_b,       \* operands of the sequential field caller
    f_calls,        \* the calls that caller has made: <<[op, x, y, res]>>
    t_pc,           \* per thread: where it is inside GF256.multiply
    t_loc,          \* per thread: its locals [a, b, i, x, saw_init]
    t_res,          \* per thread: the values its finished calls returned
    t_done,         \* per thread: the number of calls it has finished
    sh_args,        \* split_secret_bytes(secret, threshold, total_shares): its arguments
    sh_drawn,       \* the bytes random.randint returned, per call, position, coefficient
    sh_shares,      \* what the split returned or raised
    sh_recon,       \* the reconstruction made: [api, threshold, supplied, res]
    sh_verify,      \* the verify_shares call made: [supplied, res]
    env_call,       \* encrypt_model: [owner, model_data, config, rand], rand what
                    \* the random source returned (key, nonces, salt, coefficients)
    env_out,        \* what encrypt_model returned (ciphertext, metadata) or raised
    dec_call,       \* decrypt_model: [owner, encrypted_data, metadata, altered, res]
    data_pkg,       \* encrypt_data: [data, key, nonce, package]
    data_dec,       \* decrypt_data: [encrypted_package, altered, res]
    ec_keys,        \* the ECDHManager of each party: [private_value, public_key]
    ec_args,        \* the exchange agreed on: [form, salt, info]
    ec_derived,     \* what each party's derive_shared_secret returned or raised
    ec_load,        \* each party's ECDHManager(private_key_bytes) call: [arg, res]
    ec_call,        \* a call on byte strings from outside: [op, party, ..., res]
    rq_id,          \* LatticeClient._request_id
    rq_pc,          \* per thread: where it is inside _rpc_call
    rq_loc,         \* per thread: the value it read of _request_id
    rq_sent,        \* the requests issued, in order: [thread, id]
    wr_pc,          \* where _wait_for_receipt is
    wr_now,         \* time.time() - start_time, in seconds
    wr_seen,        \* what the polls of eth_getTransactionReceipt gave, in order
    wr_res,         \* what _wait_for_receipt returned or raised
    wr_timeout      \* the timeout _wait_for_receipt was called with, in seconds

fieldVars == <<exp_table, log_table, initialized>>
callerVars == <<f_a, f_b, f_calls>>
threadVars == <<t_pc, t_loc, t_res, t_done>>
shamirVars == <<sh_args, sh_drawn, sh_shares, sh_recon, sh_verify>>
envelopeVars == <<env_call, env_out, dec_call, data_pkg, data_dec>>
ecdhVars == <<ec_keys, ec_args, ec_derived, ec_load, ec_call>>
requestVars == <<rq_id, rq_pc, rq_loc, rq_sent>>
receiptVars == <<wr_pc, wr_now, wr_seen, wr_res, wr_timeout>>
clientVars == <<requestVars, receiptVars>>
vars == <<exp_table, log_table, initialized, f_a, f_b, f_calls,
          t_pc, t_loc, t_res, t_done,
          sh_args, sh_drawn, sh_shares, sh_recon, sh_verify,
          env_call, env_out, dec_call, data_pkg, data_dec,
          ec_keys, ec_args, ec_derived, ec_load, ec_call,
          rq_id, rq_pc, rq_loc, rq_sent, wr_pc, wr_now, wr_seen, wr_res, wr_timeout>>

\* What the actions of one component leave alone (the class tables apart).
exceptCaller == <<threadVars, shamirVars, envelopeVars, ecdhVars, clientVars>>
exceptThreads == <<callerVars, shamirVars, envelopeVars, ecdhVars, clientVars>>
exceptShamir == <<callerVars, threadVars, envelopeVars, ecdhVars, clientVars>>
exceptEnvelope == <<callerVars, threadVars, shamirVars, ecdhVars, clientVars>>
exceptECDH == <<fieldVars, callerVars, threadVars, shamirVars, envelopeVars, clientVars>>
exceptClient == <<fieldVars, callerVars, threadVars, shamirVars, envelopeVars, ecdhVars>>

Byte == 0..255

(***************************************************************************)
(* Results: a call returns a value or raises.                              *)
(***************************************************************************)
Ok(v) == [ok |-> TRUE, val |-> v, err |-> "", msg |-> ""]
Raise(e, m) == [ok |-> FALSE, val |-> 0, err |-> e, msg |-> m]

(***************************************************************************)
(* Bitwise operators of Python on non-negative integers.                   *)
(***************************************************************************)
RECURSIVE Xor(_, _)
Xor(a, b) ==
    IF a = 0 THEN b
    ELSE IF b = 0 THEN a
    ELSE (((a % 2) + (b % 2)) % 2) + 2 * Xor(a \div 2, b \div 2)

(***************************************************************************)
(* GF256                                                                   *)
(***************************************************************************)
RECURSIVE multiply_raw_loop(_, _, _)
multiply_raw_loop(a, b, result) ==
    IF b = 0 THEN result
    ELSE LET r1 == IF b % 2 = 1 THEN Xor(result, a) ELSE result
             a1 == a * 2
             a2 == IF (a1 \div 256) % 2 = 1 THEN Xor(a1, 283) ELSE a1
         IN multiply_raw_loop(a2, b \div 2, r1)

multiply_raw(a, b) == multiply_raw_loop(a, b, 0) % 256

add(a, b) == Xor(a, b)

subtract(a, b) == Xor(a, b)

\* One table state: the three class attributes.
Tables(e, l, i) == [exp |-> e, log |-> l, init |-> i]

NoTables == Tables(<<>>, <<>>, FALSE)

\* Python lists count from 0, sequences from 1.
At(list, i) == list[i + 1]

Put(list, i, v) == [list EXCEPT ![i + 1] = v]

ZeroExp == [i \in 1..512 |-> 0]

ZeroLog == [i \in 1..256 |-> 0]

\* Iterations i..upto-1 of "for i in range(255)": exp[i] = x, log[x] = i, x *= 3.
\* A long range is run as its first half followed by its second half; x stays
\* a byte throughout.
RECURSIVE fill_loop(_, _, _, _, _)
fill_loop(e, l, i, x, upto) ==
    IF i >= upto THEN [exp |-> e, log |-> l, x |-> x]
    ELSE IF upto - i > 4
    THEN LET m == (i + upto) \div 2
             h == fill_loop(e, l, i, x, m)
         IN IF h.x \in Byte THEN fill_loop(h.exp, h.log, m, h.x, upto) ELSE h
    ELSE fill_loop(Put(e, i, x), Put(l, x, i), i + 1,
                   multiply_raw(x, 3), upto)

\* Iterations i..upto-1 of "for i in range(255, 512)": exp[i] = exp[i - 255].
RECURSIVE overflow_loop(_, _, _)
overflow_loop(e, i, upto) ==
    IF i >= upto THEN e
    ELSE IF upto - i > 4
    THEN LET m == (i + upto) \div 2
             h == overflow_loop(e, i, m)
         IN IF At(h, i) \in Byte THEN overflow_loop(h, m, upto) ELSE h
    ELSE overflow_loop(Put(e, i, At(e, i - 255)), i + 1, upto)

\* Tables whose overflow range starts one entry late.
BuiltTables_overflow_from_256 ==
    LET f == fill_loop(ZeroExp, ZeroLog, 0, 1, 255)
        e == overflow_loop(f.exp, 256, 512)
    IN Tables(e, Put(f.log, 0, 0), TRUE)

\* _initialize_tables run from fresh tables to its end, without preemption.
BuiltTables ==
    LET f == fill_loop(ZeroExp, ZeroLog, 0, 1, 255)
        e == overflow_loop(f.exp, 255, 512)
    IN Tables(e, Put(f.log, 0, 0), TRUE)

initialize_tables(T) == IF T.init THEN T ELSE BuiltTables

\* A product looked up without the test for a zero operand.
lookup_multiply_no_zero_test(T, a, b) == At(T.exp, At(T.log, a) + At(T.log, b))

\* The arithmetic calls, reading the tables T they find after initialisation.
lookup_multiply(T, a, b) ==
    IF a = 0 \/ b = 0 THEN 0 ELSE At(T.exp, At(T.log, a) + At(T.log, b))

lookup_divide(T, a, b) == At(T.exp, At(T.log, a) - At(T.log, b) + 255)

lookup_power(T, a, e) == At(T.exp, (At(T.log, a) * e) % 255)

\* An inverse read one entry too low in the exponent table.
lookup_inverse_from_254(T, a) == At(T.exp, 254 - At(T.log, a))

lookup_inverse(T, a) == At(T.exp, 255 - At(T.log, a))

multiply(a, b) == lookup_multiply(BuiltTables, a, b)

\* A division that looks at the numerator first.
divide_numerator_first(a, b) ==
    IF a = 0 THEN Ok(0)
    ELSE IF b = 0 THEN Raise("ZeroDivisionError", "Division by zero in GF(2^8)")
    ELSE Ok(lookup_divide(BuiltTables, a, b))

divide(a, b) ==
    IF b = 0 THEN Raise("ZeroDivisionError", "Division by zero in GF(2^8)")
    ELSE IF a = 0 THEN Ok(0)
    ELSE Ok(lookup_divide(BuiltTables, a, b))

power(a, e) ==
    IF e = 0 THEN 1
    ELSE IF a = 0 THEN 0
    ELSE lookup_power(BuiltTables, a, e)

inverse(a) ==
    IF a = 0 THEN Raise("ZeroDivisionError", "Zero has no inverse in GF(2^8)")
    ELSE Ok(lookup_inverse(BuiltTables, a))

\* Whether a call reaches cls._initialize_tables().
touches_tables(op, x, y) ==
    CASE op = "multiply" -> TRUE
      [] op = "divide"   -> y # 0 /\ x # 0
      [] op = "power"    -> y # 0 /\ x # 0
      [] op = "inverse"  -> x # 0

CurTables == Tables(exp_table, log_table, initialized)

\* The class attributes after a sequential call.
AfterCall(op, x, y) ==
    IF touches_tables(op, x, y) THEN initialize_tables(CurTables) ELSE CurTables

SetTables(T) ==
    /\ exp_table' = T.exp
    /\ log_table' = T.log
    /\ initialized' = T.init

(***************************************************************************)
(* A sequential caller of the field: operands drawn at the start, then     *)
(* one call, then a second call on the first call's result.                *)
(***************************************************************************)
Call(op, x, y, res) == [op |-> op, x |-> x, y |-> y, res |-> res]

TablesInit ==
    /\ exp_table = <<>>
    /\ log_table = <<>>
    /\ initialized = FALSE

CallerIdle ==
    /\ f_a = 0
    /\ f_b = 0
    /\ f_calls = <<>>

ThreadsIdle ==
    /\ t_pc = <<>>
    /\ t_loc = <<>>
    /\ t_res = <<>>
    /\ t_done = <<>>

ShamirIdle ==
    /\ sh_args = <<>>
    /\ sh_drawn = <<>>
    /\ sh_shares = <<>>
    /\ sh_recon = <<>>
    /\ sh_verify = <<>>

EnvelopeIdle ==
    /\ env_call = <<>>
    /\ env_out = <<>>
    /\ dec_call = <<>>
    /\ data_pkg = <<>>
    /\ data_dec = <<>>

ECDHIdle ==
    /\ ec_keys = <<>>
    /\ ec_args = <<>>
    /\ ec_derived = <<>>
    /\ ec_load = <<>>
    /\ ec_call = <<>>

RequestsIdle ==
    /\ rq_id = 0
    /\ rq_pc = <<>>
    /\ rq_loc = <<>>
    /\ rq_sent = <<>>

ReceiptIdle ==
    /\ wr_pc = ""
    /\ wr_now = 0
    /\ wr_seen = <<>>
    /\ wr_res = <<>>
    /\ wr_timeout = 0

ClientIdle == RequestsIdle /\ ReceiptIdle

FieldInit ==
    /\ TablesInit
    /\ f_a \in Byte
    /\ f_b \in Byte
    /\ f_calls = <<>>
    /\ ThreadsIdle
    /\ ShamirIdle
    /\ EnvelopeIdle
    /\ ECDHIdle
    /\ ClientIdle

CallMultiply ==
    /\ f_calls = <<>>
    /\ f_calls' = <<Call("multiply", f_a, f_b, Ok(multiply(f_a, f_b)))>>
    /\ SetTables(AfterCall("multiply", f_a, f_b))
    /\ UNCHANGED <<f_a, f_b, exceptCaller>>

CallDivide ==
    /\ f_calls = <<>>
    /\ f_calls' = <<Call("divide", f_a, f_b, divide(f_a, f_b))>>
    /\ SetTables(AfterCall("divide", f_a, f_b))
    /\ UNCHANGED <<f_a, f_b, exceptCaller>>

CallInverse ==
    /\ f_calls = <<>>
    /\ f_calls' = <<Call("inverse", f_a, 0, inverse(f_a))>>
    /\ SetTables(AfterCall("inverse", f_a, 0))
    /\ UNCHANGED <<f_a, f_b, exceptCaller>>

CallPower ==
    /\ f_calls = <<>>
    /\ f_calls' = <<Call("power", f_a, f_b, Ok(power(f_a, f_b)))>>
    /\ SetTables(AfterCall("power", f_a, f_b))
    /\ UNCHANGED <<f_a, f_b, exceptCaller>>

\* multiply(a, inverse(a)) and multiply(divide(a, b), b): the second call takes
\* the first call's value.
CallMultiplyBack ==
    /\ Len(f_calls) = 1
    /\ f_calls[1].op \in {"inverse", "divide"}
    /\ f_calls[1].res.ok
    /\ LET r == f_calls[1].res.val
           o == IF f_calls[1].op = "inverse" THEN f_a ELSE f_b
       IN /\ f_calls' = Append(f_calls, Call("multiply", r, o, Ok(multiply(r, o))))
          /\ SetTables(AfterCall("multiply", r, o))
    /\ UNCHANGED <<f_a, f_b, exceptCaller>>

\* divide(a, b) and inverse(a) called after a multiply(a, b): the tables are
\* there already.
CallDivideNext ==
    /\ Len(f_calls) = 1
    /\ f_calls[1].op \in {"multiply", "_initialize_tables"}
    /\ f_calls' = Append(f_calls, Call("divide", f_a, f_b, divide(f_a, f_b)))
    /\ SetTables(AfterCall("divide", f_a, f_b))
    /\ UNCHANGED <<f_a, f_b, exceptCaller>>

CallInverseNext ==
    /\ Len(f_calls) = 1
    /\ f_calls[1].op \in {"multiply", "_initialize_tables"}
    /\ f_calls' = Append(f_calls, Call("inverse", f_a, 0, inverse(f_a)))
    /\ SetTables(AfterCall("inverse", f_a, 0))
    /\ UNCHANGED <<f_a, f_b, exceptCaller>>

FieldNext ==
    \/ CallMultiply
    \/ CallDivide
    \/ CallInverse
    \/ CallPower
    \/ CallMultiplyBack
    \/ CallDivideNext
    \/ CallInverseNext

SpecField == FieldInit /\ [][FieldNext]_vars

\* The same caller on a few operands, who also calls _initialize_tables
\* itself, before or after an arithmetic call.
TableOperands == {0, 1, 3, 60, 171}

TableCallerInit ==
    /\ TablesInit
    /\ f_a \in TableOperands
    /\ f_b \in TableOperands
    /\ f_calls = <<>>
    /\ ThreadsIdle
    /\ ShamirIdle
    /\ EnvelopeIdle
    /\ ECDHIdle
    /\ ClientIdle

CallInitializeTables ==
    /\ Len(f_calls) <= 1
    /\ f_calls' = Append(f_calls, Call("_initialize_tables", 0, 0, Ok(0)))
    /\ SetTables(initialize_tables(CurTables))
    /\ UNCHANGED <<f_a, f_b, exceptCaller>>

TablesNext ==
    \/ FieldNext
    \/ CallInitializeTables

SpecTables == TableCallerInit /\ [][TablesNext]_vars

\* C8: for every nonzero a, inverse(a) returns and multiply(a, inverse(a)) is
\* 1; for every a and every nonzero b, divide(a, b) returns and
\* multiply(divide(a, b), b) is a.
C8_FieldCorrectness ==
    /\ \A k \in 1..Len(f_calls) :
          /\ (f_calls[k].op = "inverse" /\ f_calls[k].x # 0) => f_calls[k].res.ok
          /\ (f_calls[k].op = "divide" /\ f_calls[k].y # 0) => f_calls[k].res.ok
    /\ (Len(f_calls) = 2 /\ f_calls[1].op = "inverse") =>
          /\ f_calls[2] = Call("multiply", f_calls[1].res.val, f_a, Ok(1))
    /\ (Len(f_calls) = 2 /\ f_calls[1].op = "divide") =>
          /\ f_calls[2] = Call("multiply", f_calls[1].res.val, f_b, Ok(f_a))

\* 171 was divided by 60 and the quotient multiplied by 60 gave 171 back.
C8_Witness ==
    /\ Len(f_calls) = 2
    /\ f_calls[1].op = "divide"
    /\ f_a = 171 /\ f_b = 60
    /\ f_calls[1].res.val \notin {0, 1, 171}
    /\ f_calls[2].res = Ok(171)

(***************************************************************************)
(* Threads whose GF256.multiply calls run concurrently.  The class holds   *)
(* no lock: a thread can be preempted between any two statements of        *)
(* _initialize_tables and of multiply.  A block of at most Stride loop     *)
(* iterations runs without preemption.                                     *)
(***************************************************************************)
NThreads == 2

MaxCalls == 2

Stride == 128

Threads == 1..NThreads

\* The operands the threads multiply.
Operands == {<<3, 7>>, <<0, 5>>}

Min(m, n) == IF m <= n THEN m ELSE n

Locals(a, b, i, x, saw) == [a |-> a, b |-> b, i |-> i, x |-> x, saw_init |-> saw]

RaceInit ==
    /\ TablesInit
    /\ CallerIdle
    /\ t_pc = [t \in Threads |-> "idle"]
    /\ t_loc = [t \in Threads |-> Locals(0, 0, 0, 0, FALSE)]
    /\ t_res = [t \in Threads |-> <<>>]
    /\ t_done = [t \in Threads |-> 0]
    /\ ShamirIdle
    /\ EnvelopeIdle
    /\ ECDHIdle
    /\ ClientIdle

Goto(t, pc) == t_pc' = [t_pc EXCEPT ![t] = pc]

\* multiply(a, b) is entered.
Enter(t) ==
    /\ t_pc[t] = "idle"
    /\ t_done[t] < MaxCalls
    /\ \E ab \in Operands :
          t_loc' = [t_loc EXCEPT ![t] = Locals(ab[1], ab[2], 0, 0, FALSE)]
    /\ Goto(t, "check")
    /\ UNCHANGED <<fieldVars, t_res, t_done, exceptThreads>>

\* if cls._initialized: return
CheckInitialized(t) ==
    /\ t_pc[t] = "check"
    /\ t_loc' = [t_loc EXCEPT ![t].saw_init = initialized]
    /\ Goto(t, IF initialized THEN "lookup" ELSE "alloc_exp")
    /\ UNCHANGED <<fieldVars, t_res, t_done, exceptThreads>>

\* cls._exp_table = [0] * 512
AllocExp(t) ==
    /\ t_pc[t] = "alloc_exp"
    /\ exp_table' = ZeroExp
    /\ Goto(t, "alloc_log")
    /\ UNCHANGED <<log_table, initialized, t_loc, t_res, t_done, exceptThreads>>

\* cls._log_table = [0] * 256; x = 1
AllocLog(t) ==
    /\ t_pc[t] = "alloc_log"
    /\ log_table' = ZeroLog
    /\ t_loc' = [t_loc EXCEPT ![t].i = 0, ![t].x = 1]
    /\ Goto(t, "fill")
    /\ UNCHANGED <<exp_table, initialized, t_res, t_done, exceptThreads>>

\* for i in range(255): the next block of iterations, on the tables the class
\* holds now.
Fill(t) ==
    /\ t_pc[t] = "fill"
    /\ exp_table # <<>> /\ log_table # <<>>
    /\ LET upto == Min(t_loc[t].i + Stride, 255)
           f == fill_loop(exp_table, log_table, t_loc[t].i, t_loc[t].x, upto)
       IN /\ exp_table' = f.exp
          /\ log_table' = f.log
          /\ t_loc' = [t_loc EXCEPT ![t].i = upto, ![t].x = f.x]
          /\ Goto(t, IF upto = 255 THEN "overflow" ELSE "fill")
    /\ UNCHANGED <<initialized, t_res, t_done, exceptThreads>>

\* for i in range(255, 512): the next block of iterations.
Overflow(t) ==
    /\ t_pc[t] = "overflow"
    /\ LET upto == Min(t_loc[t].i + Stride, 512)
       IN /\ exp_table' = overflow_loop(exp_table, t_loc[t].i, upto)
          /\ t_loc' = [t_loc EXCEPT ![t].i = upto]
          /\ Goto(t, IF upto = 512 THEN "log_zero" ELSE "overflow")
    /\ UNCHANGED <<log_table, initialized, t_res, t_done, exceptThreads>>

\* cls._log_table[0] = 0
LogZero(t) ==
    /\ t_pc[t] = "log_zero"
    /\ log_table' = Put(log_table, 0, 0)
    /\ Goto(t, "set_initialized")
    /\ UNCHANGED <<exp_table, initialized, t_loc, t_res, t_done, exceptThreads>>

\* cls._initialized = True
SetInitialized(t) ==
    /\ t_pc[t] = "set_initialized"
    /\ initialized' = TRUE
    /\ Goto(t, "lookup")
    /\ UNCHANGED <<exp_table, log_table, t_loc, t_res, t_done, exceptThreads>>

\* if a == 0 or b == 0: return 0
\* return cls._exp_table[cls._log_table[a] + cls._log_table[b]]
Lookup(t) ==
    /\ t_pc[t] = "lookup"
    /\ t_res' = [t_res EXCEPT ![t] = Append(@,
                    [a |-> t_loc[t].a, b |-> t_loc[t].b,
                     saw_init |-> t_loc[t].saw_init,
                     val |-> lookup_multiply(CurTables, t_loc[t].a, t_loc[t].b)])]
    /\ t_done' = [t_done EXCEPT ![t] = @ + 1]
    /\ Goto(t, "idle")
    /\ UNCHANGED <<fieldVars, t_loc, exceptThreads>>

RaceNext ==
    \E t \in Threads :
        \/ Enter(t)
        \/ CheckInitialized(t)
        \/ AllocExp(t)
        \/ AllocLog(t)
        \/ Fill(t)
        \/ Overflow(t)
        \/ LogZero(t)
        \/ SetInitialized(t)
        \/ Lookup(t)

SpecRace == RaceInit /\ [][RaceNext]_vars

\* C9: under every interleaving of the threads' first calls, each multiply
\* call returns the value it returns with fully built tables (and so never
\* reads a reset or partly filled table).
C9_ConcurrentInitSafe ==
    \A t \in Threads : \A k \in 1..Len(t_res[t]) :
        t_res[t][k].val = multiply(t_res[t][k].a, t_res[t][k].b)

(***************************************************************************)
(* ShamirSecretSharing                                                     *)
(***************************************************************************)
\* __init__ with a threshold check that lets a threshold of total_shares + 1
\* through.
ShamirSecretSharing_threshold_one_over(threshold, total_shares) ==
    IF threshold <= 0
    THEN Raise("ValueError", "Threshold must be positive")
    ELSE IF threshold > total_shares + 1
    THEN Raise("ValueError", "Threshold cannot exceed total shares")
    ELSE IF total_shares > 255
    THEN Raise("ValueError", "Total shares cannot exceed 255")
    ELSE Ok([threshold |-> threshold, total_shares |-> total_shares])

\* __init__(threshold, total_shares)
ShamirSecretSharing(threshold, total_shares) ==
    IF threshold <= 0
    THEN Raise("ValueError", "Threshold must be positive")
    ELSE IF threshold > total_shares
    THEN Raise("ValueError", "Threshold cannot exceed total shares")
    ELSE IF total_shares > 255
    THEN Raise("ValueError", "Total shares cannot exceed 255")
    ELSE Ok([threshold |-> threshold, total_shares |-> total_shares])

\* for coeff in coefficients: result += coeff * x_power; x_power *= x
RECURSIVE evaluate_loop(_, _, _, _, _)
evaluate_loop(coefficients, k, result, x_power, x) ==
    IF k > Len(coefficients) THEN result
    ELSE evaluate_loop(coefficients, k + 1,
                       add(result, multiply(coefficients[k], x_power)),
                       multiply(x_power, x), x)

\* _evaluate_polynomial_at_point(secret, x): draws[p] are the threshold - 1
\* bytes random.randint returns for byte position p during this call.
evaluate_polynomial_at_point(self, secret, x, draws) ==
    [p \in 1..Len(secret) |->
        evaluate_loop(<<secret[p]>> \o draws[p], 1, 0, 1, x)]

\* A split whose x run over range(total_shares): 0 .. n - 1.
split_secret_from_zero(self, secret, drawn) ==
    [i \in 1..self.total_shares |->
        <<i - 1, evaluate_polynomial_at_point(self, secret, i - 1, drawn[i])>>]

\* split_secret(secret): drawn[i] are the draws of the call for x = i.
split_secret(self, secret, drawn) ==
    [i \in 1..self.total_shares |->
        <<i, evaluate_polynomial_at_point(self, secret, i, drawn[i])>>]

\* The inner loop of _lagrange_interpolation: over j, for one i.
RECURSIVE basis_loop(_, _, _, _, _)
basis_loop(points, i, j, numerator, denominator) ==
    IF j > Len(points) THEN [numerator |-> numerator, denominator |-> denominator]
    ELSE IF i # j
    THEN basis_loop(points, i, j + 1,
                    multiply(numerator, points[j][1]),
                    multiply(denominator, subtract(points[i][1], points[j][1])))
    ELSE basis_loop(points, i, j + 1, numerator, denominator)

\* The outer loop of _lagrange_interpolation: over i, raising at the first
\* zero denominator.
RECURSIVE lagrange_loop(_, _, _)
lagrange_loop(points, i, result) ==
    IF i > Len(points) THEN Ok(result)
    ELSE LET b == basis_loop(points, i, 1, 1, 1)
         IN IF b.denominator = 0
            THEN Raise("ValueError", "Denominator is zero in Lagrange interpolation")
            ELSE LET lagrange_coeff == divide(b.numerator, b.denominator).val
                 IN lagrange_loop(points, i + 1,
                        add(result, multiply(points[i][2], lagrange_coeff)))

\* The interpolation loop without its zero-denominator check: the division
\* raises ZeroDivisionError instead.
RECURSIVE lagrange_loop_unchecked(_, _, _)
lagrange_loop_unchecked(points, i, result) ==
    IF i > Len(points) THEN Ok(result)
    ELSE LET b == basis_loop(points, i, 1, 1, 1)
             q == divide(b.numerator, b.denominator)
         IN IF ~q.ok THEN q
            ELSE lagrange_loop_unchecked(points, i + 1,
                     add(result, multiply(points[i][2], q.val)))

lagrange_interpolation_unchecked(points) == lagrange_loop_unchecked(points, 1, 0)

\* _lagrange_interpolation(points, 0)
lagrange_interpolation(points) == lagrange_loop(points, 1, 0)

\* reconstruct_secret(shares), from the slice active_shares on.
reconstruct_active(active_shares) ==
    LET share_length == Len(active_shares[1][2])
    IN IF \E k \in 1..Len(active_shares) : Len(active_shares[k][2]) # share_length
       THEN Raise("ValueError", "All shares must have the same length")
       ELSE LET byte_at(byte_pos) ==
                    lagrange_interpolation(
                        [k \in 1..Len(active_shares) |->
                            <<active_shares[k][1], active_shares[k][2][byte_pos]>>])
                failed == {byte_pos \in 1..share_length : ~byte_at(byte_pos).ok}
            IN IF failed # {}
               THEN byte_at(CHOOSE byte_pos \in failed :
                                \A other \in failed : byte_pos <= other)
               ELSE Ok([byte_pos \in 1..share_length |-> byte_at(byte_pos).val])

\* reconstruct_secret with a share count check that is off by one: one share
\* fewer than the threshold gets through to the interpolation.
reconstruct_secret_one_short(self, shares) ==
    IF Len(shares) < self.threshold - 1
    THEN Raise("ValueError", "Need at least threshold shares")
    ELSE IF shares = <<>>
    THEN Raise("IndexError", "list index out of range")
    ELSE reconstruct_active(SubSeq(shares, 1, Min(self.threshold, Len(shares))))

\* reconstruct_secret interpolating through every supplied share.
reconstruct_secret_all_shares(self, shares) ==
    IF Len(shares) < self.threshold
    THEN Raise("ValueError", "Need at least threshold shares")
    ELSE IF shares = <<>>
    THEN Raise("IndexError", "list index out of range")
    ELSE reconstruct_active(shares)

\* reconstruct_secret(shares)
reconstruct_secret(self, shares) ==
    IF Len(shares) < self.threshold
    THEN Raise("ValueError", "Need at least threshold shares")
    ELSE reconstruct_active(SubSeq(shares, 1, self.threshold))

\* The windows verify_shares reconstructs: shares[i:i + threshold].
verify_windows(self, shares) ==
    [i \in 1..(Len(shares) - self.threshold + 1) |->
        SubSeq(shares, i, i + self.threshold - 1)]

\* verify_shares(shares): the reconstructions' values are not compared.
verify_shares(self, shares) ==
    IF Len(shares) < self.threshold THEN Ok(FALSE)
    ELSE LET windows == verify_windows(self, shares)
         IN IF \E i \in 1..Len(windows) : ~reconstruct_secret(self, windows[i]).ok
            THEN Ok(FALSE)
            ELSE Ok(TRUE)

\* split_secret_bytes(secret, threshold, total_shares)
split_secret_bytes(secret, threshold, total_shares, drawn) ==
    LET sss == ShamirSecretSharing(threshold, total_shares)
    IN IF sss.ok THEN Ok(split_secret(sss.val, secret, drawn)) ELSE sss

Max(m, n) == IF m >= n THEN m ELSE n

\* reconstruct_secret_bytes(shares, threshold)
reconstruct_secret_bytes(shares, threshold) ==
    LET total_shares == Max(Len(shares), threshold)
        sss == ShamirSecretSharing(threshold, total_shares)
    IN IF sss.ok THEN reconstruct_secret(sss.val, shares) ELSE sss

(***************************************************************************)
(* Text: a decimal string is its sequence of digits, a hex string its      *)
(* sequence of hex digits (0..15; any other value is not a hex digit).     *)
(***************************************************************************)
\* str(n), n >= 0
RECURSIVE str(_)
str(n) == IF n < 10 THEN <<n>> ELSE Append(str(n \div 10), n % 10)

RECURSIVE int_loop(_, _, _)
int_loop(s, k, acc) ==
    IF k > Len(s) THEN acc ELSE int_loop(s, k + 1, acc * 10 + s[k])

\* int(s)
int(s) ==
    IF s = <<>> \/ \E k \in 1..Len(s) : s[k] \notin 0..9
    THEN Raise("ValueError", "invalid literal for int()")
    ELSE Ok(int_loop(s, 1, 0))

\* bytes.hex()
hex(b) ==
    [k \in 1..(2 * Len(b)) |->
        IF k % 2 = 1 THEN b[(k + 1) \div 2] \div 16 ELSE b[k \div 2] % 16]

\* bytes.fromhex(h)
fromhex(h) ==
    IF Len(h) % 2 = 1 \/ \E k \in 1..Len(h) : h[k] \notin 0..15
    THEN Raise("ValueError", "non-hexadecimal number found in fromhex()")
    ELSE Ok([k \in 1..(Len(h) \div 2) |-> h[2 * k - 1] * 16 + h[2 * k]])

(***************************************************************************)
(* KeyManager: key shares                                                  *)
(***************************************************************************)
\* _create_key_shares(key, threshold, total)
create_key_shares(key, threshold, total, drawn) ==
    LET shares_tuples == split_secret_bytes(key, threshold, total, drawn)
    IN IF ~shares_tuples.ok THEN shares_tuples
       ELSE Ok([k \in 1..Len(shares_tuples.val) |->
                  [x |-> str(shares_tuples.val[k][1]),
                   y |-> hex(shares_tuples.val[k][2]),
                   threshold |-> str(threshold)]])

\* reconstruct_key_from_shares(shares)
reconstruct_key_from_shares(shares) ==
    IF shares = <<>>
    THEN Raise("CitrateError", "No shares provided")
    ELSE LET threshold == int(shares[1].threshold)
         IN IF ~threshold.ok THEN threshold
            ELSE IF Len(shares) < threshold.val
            THEN Raise("CitrateError", "Insufficient shares for key reconstruction")
            ELSE IF \E k \in 1..Len(shares) : ~int(shares[k].x).ok
            THEN Raise("ValueError", "invalid literal for int()")
            ELSE IF \E k \in 1..Len(shares) : ~fromhex(shares[k].y).ok
            THEN Raise("ValueError", "non-hexadecimal number found in fromhex()")
            ELSE reconstruct_secret_bytes(
                     [k \in 1..Len(shares) |->
                         <<int(shares[k].x).val, fromhex(shares[k].y).val>>],
                     threshold.val)

(***************************************************************************)
(* A split followed by one reconstruction from shares picked out of it,    *)
(* possibly repeated, reordered or altered on the way.                     *)
(***************************************************************************)
MaxShares == 3

MaxSupplied == 3

MaxDraws == 6

MaxTotal == 255

\* The secrets split, the bytes the random source returns.
Secrets == {<<>>, <<171>>, <<171, 60>>}

RandBytes == {0, 29}

Thresholds == (-1)..MaxShares

Totals == (0..MaxShares) \cup {MaxTotal, MaxTotal + 1}

\* The shares of the split a reconstruction picks from: the first few.
PickFrom == 1..Min(sh_args.total_shares, MaxShares)

SeqsUpTo(S, n) == UNION {[1..k -> S] : k \in 0..n}

ShamirInit ==
    /\ TablesInit
    /\ CallerIdle
    /\ ThreadsIdle
    /\ ShamirIdle
    /\ EnvelopeIdle
    /\ ECDHIdle
    /\ ClientIdle

\* The class tables after a call that multiplies (or not).
TablesAfter(multiplies) ==
    SetTables(IF multiplies THEN initialize_tables(CurTables) ELSE CurTables)

\* split_secret_bytes(secret, threshold, total_shares)
Split ==
    /\ sh_args = <<>>
    /\ \E secret \in Secrets, threshold \in Thresholds, total_shares \in Totals :
         LET sss == ShamirSecretSharing(threshold, total_shares)
         IN /\ sh_args' = [secret |-> secret, threshold |-> threshold,
                           total_shares |-> total_shares]
            /\ IF sss.ok
               THEN /\ total_shares * Len(secret) * (threshold - 1) <= MaxDraws
                    /\ \E drawn \in [1..total_shares ->
                                       [1..Len(secret) -> [1..(threshold - 1) -> RandBytes]]] :
                         /\ sh_drawn' = drawn
                         /\ sh_shares' = split_secret_bytes(secret, threshold,
                                                           total_shares, drawn)
                    /\ TablesAfter(Len(secret) > 0)
               ELSE /\ sh_drawn' = <<>>
                    /\ sh_shares' = sss
                    /\ TablesAfter(FALSE)
    /\ UNCHANGED <<sh_recon, sh_verify, exceptShamir>>

\* The shares handed to a reconstruction: shares of the split picked in any
\* order, with repeats, the first or the last of them possibly altered.
Alter(share, kind) ==
    CASE kind = "none"  -> share
      [] kind = "short" -> <<share[1], SubSeq(share[2], 1, Len(share[2]) - 1)>>
      [] kind = "flip"  -> <<share[1], [share[2] EXCEPT ![1] = Xor(@, 1)]>>

Supplied(picks, pos, kind) ==
    [k \in 1..Len(picks) |->
        IF k = pos THEN Alter(sh_shares.val[picks[k]], kind)
        ELSE sh_shares.val[picks[k]]]

Alterations(picks) ==
    {<<0, "none">>} \cup
    (IF Len(sh_args.secret) > 0
     THEN ({1, Len(picks)} \cap (1..Len(picks))) \X {"short", "flip"} ELSE {})

ReconThresholds == {sh_args.threshold, 0, MaxTotal + 1}

\* The thresholds tried with an alteration: the out-of-range ones go with
\* unaltered shares only.
ReconThresholdsFor(alt) ==
    IF alt[2] = "none" THEN ReconThresholds ELSE {sh_args.threshold}

\* Whether reconstruct_secret gets as far as interpolating a byte.
Interpolates(self, shares) ==
    /\ Len(shares) >= self.threshold
    /\ \A k \in 1..self.threshold : Len(shares[k][2]) = Len(shares[1][2])
    /\ Len(shares[1][2]) > 0

Recon(api, threshold, supplied, res) ==
    [api |-> api, threshold |-> threshold, supplied |-> supplied, res |-> res]

\* sss.reconstruct_secret(shares) on the scheme that split
ReconstructSecret ==
    /\ sh_shares # <<>> /\ sh_shares.ok
    /\ sh_recon = <<>> /\ sh_verify = <<>>
    /\ \E picks \in SeqsUpTo(PickFrom, MaxSupplied) :
       \E alt \in Alterations(picks) :
         LET self == ShamirSecretSharing(sh_args.threshold, sh_args.total_shares).val
             shares == Supplied(picks, alt[1], alt[2])
         IN /\ sh_recon' = Recon("reconstruct_secret", self.threshold, shares,
                                 reconstruct_secret(self, shares))
            /\ TablesAfter(Interpolates(self, shares))
    /\ UNCHANGED <<sh_args, sh_drawn, sh_shares, sh_verify, exceptShamir>>

\* reconstruct_secret_bytes(shares, threshold)
ReconstructSecretBytes ==
    /\ sh_shares # <<>> /\ sh_shares.ok
    /\ sh_recon = <<>> /\ sh_verify = <<>>
    /\ \E picks \in SeqsUpTo(PickFrom, MaxSupplied) :
       \E alt \in Alterations(picks) : \E threshold \in ReconThresholdsFor(alt) :
         LET shares == Supplied(picks, alt[1], alt[2])
             sss == ShamirSecretSharing(threshold, Max(Len(shares), threshold))
         IN /\ sh_recon' = Recon("reconstruct_secret_bytes", threshold, shares,
                                 reconstruct_secret_bytes(shares, threshold))
            /\ TablesAfter(sss.ok /\ Interpolates(sss.val, shares))
    /\ UNCHANGED <<sh_args, sh_drawn, sh_shares, sh_verify, exceptShamir>>

\* The records _create_key_shares makes of share tuples.
ShareRecords(shares, threshold) ==
    [k \in 1..Len(shares) |->
        [x |-> str(shares[k][1]), y |-> hex(shares[k][2]),
         threshold |-> str(threshold)]]

\* KeyManager.reconstruct_key_from_shares(shares), on share records
ReconstructKeyFromShares ==
    /\ sh_shares # <<>> /\ sh_shares.ok
    /\ sh_recon = <<>> /\ sh_verify = <<>>
    /\ \E picks \in SeqsUpTo(PickFrom, MaxSupplied) :
       \E alt \in Alterations(picks) : \E threshold \in ReconThresholdsFor(alt) :
         LET shares == Supplied(picks, alt[1], alt[2])
             sss == ShamirSecretSharing(threshold, Max(Len(shares), threshold))
         IN /\ sh_recon' = Recon("reconstruct_key_from_shares", threshold, shares,
                                 reconstruct_key_from_shares(
                                     ShareRecords(shares, threshold)))
            /\ TablesAfter(sss.ok /\ Interpolates(sss.val, shares))
    /\ UNCHANGED <<sh_args, sh_drawn, sh_shares, sh_verify, exceptShamir>>

\* Whether verify_shares gets as far as interpolating a byte: in a window it
\* reaches, that is one with no failing window before it.
VerifyInterpolates(self, shares) ==
    /\ Len(shares) >= self.threshold
    /\ LET windows == verify_windows(self, shares)
       IN \E i \in 1..Len(windows) :
             /\ Interpolates(self, windows[i])
             /\ \A j \in 1..(i - 1) : reconstruct_secret(self, windows[j]).ok

\* sss.verify_shares(shares) on the scheme that split
VerifyShares ==
    /\ sh_shares # <<>> /\ sh_shares.ok
    /\ sh_recon = <<>> /\ sh_verify = <<>>
    /\ \E picks \in SeqsUpTo(PickFrom, MaxSupplied) :
       \E alt \in Alterations(picks) :
         LET self == ShamirSecretSharing(sh_args.threshold, sh_args.total_shares).val
             shares == Supplied(picks, alt[1], alt[2])
         IN /\ sh_verify' = [supplied |-> shares, res |-> verify_shares(self, shares)]
            /\ TablesAfter(VerifyInterpolates(self, shares))
    /\ UNCHANGED <<sh_args, sh_drawn, sh_shares, sh_recon, exceptShamir>>

ShamirNext ==
    \/ Split
    \/ ReconstructSecret
    \/ ReconstructSecretBytes
    \/ ReconstructKeyFromShares
    \/ VerifyShares

SpecShamir == ShamirInit /\ [][ShamirNext]_vars

(***************************************************************************)
(* Properties of splitting and reconstructing                              *)
(***************************************************************************)
Reconstructed == sh_recon # <<>>

\* The supplied shares are shares of the split, unaltered.
FromTheSplit ==
    \A k \in 1..Len(sh_recon.supplied) :
        \E i \in 1..Len(sh_shares.val) : sh_recon.supplied[k] = sh_shares.val[i]

DistinctX(shares) ==
    \A k, l \in 1..Len(shares) : k # l => shares[k][1] # shares[l][1]

\* Two of the shares at positions 1..upto have the same x.
DuplicateX(shares, upto) ==
    \E k, l \in 1..Min(upto, Len(shares)) : k # l /\ shares[k][1] = shares[l][1]

\* C1: reconstructing from exactly t distinct shares of a split returns the
\* secret that was split, whatever the random source returned.
C1_RoundTrip ==
    (/\ Reconstructed
     /\ sh_recon.threshold = sh_args.threshold
     /\ Len(sh_recon.supplied) = sh_args.threshold
     /\ FromTheSplit
     /\ DistinctX(sh_recon.supplied))
    => sh_recon.res = Ok(sh_args.secret)

\* The errors that say too few shares were supplied.
InsufficientShares(res) ==
    /\ ~res.ok
    /\ \/ res.err = "ValueError" /\ res.msg = "Need at least threshold shares"
       \/ res.err = "CitrateError" /\ res.msg = "Insufficient shares for key reconstruction"

\* A reconstruction that was handed fewer shares than its threshold t (for
\* reconstruct_key_from_shares t is read from the first share, so there is one).
FewerThanThreshold ==
    /\ Reconstructed
    /\ Len(sh_recon.supplied) < sh_recon.threshold
    /\ sh_recon.api = "reconstruct_key_from_shares" => Len(sh_recon.supplied) >= 1

\* C6 as claimed: with fewer than t shares every reconstruction fails with an
\* insufficient-shares error.
C6_AlwaysInsufficientSharesError ==
    FewerThanThreshold => InsufficientShares(sh_recon.res)

\* C6 as amended: with fewer than t shares every reconstruction fails and
\* returns no secret; the error is the insufficient-shares error when t <= 255,
\* and for reconstruct_secret_bytes with t > 255 it is the parameter error
\* "Total shares cannot exceed 255".
C6_ThresholdEnforced ==
    FewerThanThreshold =>
        /\ ~sh_recon.res.ok
        /\ IF sh_recon.api = "reconstruct_secret_bytes" /\ sh_recon.threshold > MaxTotal
           THEN /\ sh_recon.res.err = "ValueError"
                /\ sh_recon.res.msg = "Total shares cannot exceed 255"
           ELSE InsufficientShares(sh_recon.res)

\* reconstruct_key_from_shares was handed one share of threshold 2 and raised
\* the insufficient-shares error.
C6_Witness ==
    /\ FewerThanThreshold
    /\ sh_recon.threshold = 2
    /\ Len(sh_recon.supplied) = 1
    /\ sh_recon.api = "reconstruct_key_from_shares"
    /\ InsufficientShares(sh_recon.res)

DegenerateInterpolation(res) ==
    /\ ~res.ok
    /\ res.err = "ValueError"
    /\ res.msg = "Denominator is zero in Lagrange interpolation"

\* C7 as claimed: reconstruct_secret fails with the degenerate-interpolation
\* error whenever two of the supplied shares have the same x.
C7_AnyDuplicateRejected ==
    (/\ Reconstructed
     /\ sh_recon.api = "reconstruct_secret"
     /\ DuplicateX(sh_recon.supplied, Len(sh_recon.supplied)))
    => DegenerateInterpolation(sh_recon.res)

\* The first t supplied shares all have a y of the same length, at least 1.
ActiveWellFormed ==
    /\ Len(sh_recon.supplied) >= sh_recon.threshold
    /\ \A k \in 1..sh_recon.threshold :
          /\ Len(sh_recon.supplied[k][2]) = Len(sh_recon.supplied[1][2])
          /\ Len(sh_recon.supplied[k][2]) >= 1

\* C7 as amended: reconstruct_secret fails with the degenerate-interpolation
\* error whenever two of the first t supplied shares (the ones it uses) have
\* the same x and those t shares have y of one length, at least 1.
C7_DuplicateAmongUsedRejected ==
    (/\ Reconstructed
     /\ sh_recon.api = "reconstruct_secret"
     /\ ActiveWellFormed
     /\ DuplicateX(sh_recon.supplied, sh_recon.threshold))
    => DegenerateInterpolation(sh_recon.res)

\* Three shares were supplied to a 3-of-3 scheme, the last two with the same
\* x, and reconstruct_secret raised the degenerate-interpolation error.
C7_Witness ==
    /\ Reconstructed
    /\ sh_recon.api = "reconstruct_secret"
    /\ sh_recon.threshold = 3
    /\ Len(sh_recon.supplied) = 3
    /\ ActiveWellFormed
    /\ sh_recon.supplied[1][1] # sh_recon.supplied[2][1]
    /\ sh_recon.supplied[2][1] = sh_recon.supplied[3][1]
    /\ DegenerateInterpolation(sh_recon.res)

\* The value at x of the polynomial with the given coefficients.
PolynomialAt(coefficients, x) == evaluate_loop(coefficients, 1, 0, 1, x)

\* C10: for each byte position the n share bytes of one split are the values
\* at x = 1..n of one polynomial of degree at most t - 1 whose constant term
\* is the secret byte.
C10_OnePolynomialPerPosition ==
    (sh_shares # <<>> /\ sh_shares.ok /\ ~Reconstructed) =>
        \A p \in 1..Len(sh_args.secret) :
            \E c \in [1..(sh_args.threshold - 1) -> Byte] :
                \A i \in 1..sh_args.total_shares :
                    sh_shares.val[i][2][p] = PolynomialAt(<<sh_args.secret[p]>> \o c, i)

(***************************************************************************)
(* The library primitives KeyManager calls.  HKDF is a function of (salt,  *)
(* info, key material) whose outputs collide for no two inputs.  AES-GCM   *)
(* is counter mode under a keystream of (key, nonce) with a tag that is    *)
(* valid for one (key, nonce, body) only: a ciphertext is its body bytes   *)
(* and its tag, the tag standing for the 16 bytes that authenticate them.  *)
(***************************************************************************)
RECURSIVE SumBytes(_)
SumBytes(b) == IF b = <<>> THEN 0 ELSE b[1] + SumBytes(Tail(b))

\* HKDF(algorithm, length, salt, info).derive(key_material)
HKDF_derive(salt, info, key_material) ==
    <<Len(salt)>> \o salt \o <<Len(info)>> \o info \o key_material

KeyStream(key, nonce, k) == (7 * SumBytes(key) + 13 * SumBytes(nonce) + 31 * k) % 256

XorBytes(data, key, nonce) ==
    [k \in 1..Len(data) |-> Xor(data[k], KeyStream(key, nonce, k))]

GcmTag(key, nonce, body) ==
    [key |-> key, nonce |-> nonce, body |-> body, flipped |-> {}]

\* AESGCM(key).encrypt(nonce, data, None)
AESGCM_encrypt(key, nonce, data) ==
    LET body == XorBytes(data, key, nonce)
    IN [body |-> body, tag |-> GcmTag(key, nonce, body)]

\* Counter mode without the tag check.
AESGCM_decrypt_unauthenticated(key, nonce, ct) == Ok(XorBytes(ct.body, key, nonce))

\* AESGCM(key).decrypt(nonce, data, None)
AESGCM_decrypt(key, nonce, ct) ==
    IF ct.tag = GcmTag(key, nonce, ct.body)
    THEN Ok(XorBytes(ct.body, key, nonce))
    ELSE Raise("InvalidTag", "")

\* ciphertext.hex() and bytes.fromhex of it: the tag goes through unchanged.
ciphertext_hex(ct) == [body |-> hex(ct.body), tag |-> ct.tag]

ciphertext_fromhex(h) ==
    LET body == fromhex(h.body)
    IN IF body.ok THEN Ok([body |-> body.val, tag |-> h.tag]) ELSE body

\* json.dumps(d) of a dict whose keys were inserted in the order `keys`: the
\* text is the sequence of its members.
json_dumps(d, keys) == [k \in 1..Len(keys) |-> <<keys[k], d[keys[k]]>>]

\* json.loads(text): the last member of a name wins.
json_loads(text) ==
    [name \in {text[k][1] : k \in 1..Len(text)} |->
        LET last == CHOOSE k \in 1..Len(text) :
                        /\ text[k][1] = name
                        /\ \A l \in (k + 1)..Len(text) : text[l][1] # name
        IN text[last][2]]

\* d[name]
Item(d, name) ==
    IF name \in DOMAIN d THEN Ok(d[name]) ELSE Raise("KeyError", name)

(***************************************************************************)
(* KeyManager: the envelope                                                *)
(***************************************************************************)
\* info = b'citrate-key-wrapping', written by its bytes "wrap"
key_wrapping_info == <<119, 114, 97, 112>>

\* _encrypt_key_for_owner(key); salt and nonce are what secrets.token_bytes
\* returned.
encrypt_key_for_owner(account_key, key, salt, nonce) ==
    LET owner_key == HKDF_derive(salt, key_wrapping_info, account_key)
        encrypted_key == AESGCM_encrypt(owner_key, nonce, key)
    IN json_dumps([encrypted_key |-> ciphertext_hex(encrypted_key),
                   nonce |-> hex(nonce),
                   salt |-> hex(salt)],
                  <<"encrypted_key", "nonce", "salt">>)

\* _decrypt_key_from_owner with the salt of the package ignored.
decrypt_key_from_owner_fixed_salt(account_key, encrypted_key_package) ==
    LET package == json_loads(encrypted_key_package)
        encrypted_key == ciphertext_fromhex(package["encrypted_key"]).val
        nonce == fromhex(package["nonce"]).val
        owner_key == HKDF_derive(<<>>, key_wrapping_info, account_key)
    IN AESGCM_decrypt(owner_key, nonce, encrypted_key)

\* _decrypt_key_from_owner(encrypted_key_package)
decrypt_key_from_owner(account_key, encrypted_key_package) ==
    LET package == json_loads(encrypted_key_package)
        ek_hex == Item(package, "encrypted_key")
        encrypted_key == ciphertext_fromhex(ek_hex.val)
        nonce_hex == Item(package, "nonce")
        nonce == fromhex(nonce_hex.val)
        salt_hex == Item(package, "salt")
        salt == fromhex(salt_hex.val)
    IN IF ~ek_hex.ok THEN ek_hex
       ELSE IF ~encrypted_key.ok THEN encrypted_key
       ELSE IF ~nonce_hex.ok THEN nonce_hex
       ELSE IF ~nonce.ok THEN nonce
       ELSE IF ~salt_hex.ok THEN salt_hex
       ELSE IF ~salt.ok THEN salt
       ELSE LET owner_key == HKDF_derive(salt.val, key_wrapping_info, account_key)
            IN AESGCM_decrypt(owner_key, nonce.val, encrypted_key.val)

\* EncryptionConfig(...)
EncryptionConfig(threshold_shares, total_shares) ==
    [algorithm |-> "AES-256-GCM", key_derivation |-> "HKDF-SHA256",
     access_control |-> TRUE,
     threshold_shares |-> threshold_shares, total_shares |-> total_shares]

\* encrypt_model(model_data, config); rand is what the random source returned.
encrypt_model(account_key, model_data, config, rand) ==
    LET key == rand.key
        nonce == rand.nonce
        ciphertext == AESGCM_encrypt(key, nonce, model_data)
        metadata == [algorithm |-> config.algorithm,
                     nonce |-> hex(nonce),
                     key_derivation |-> config.key_derivation,
                     encrypted_key |-> encrypt_key_for_owner(account_key, key,
                                           rand.salt, rand.wrap_nonce),
                     access_control |-> config.access_control]
    IN IF config.threshold_shares > 0
       THEN LET key_shares == create_key_shares(key, config.threshold_shares,
                                                config.total_shares, rand.drawn)
            IN IF key_shares.ok
               THEN Ok(<<ciphertext, metadata @@ [key_shares |-> key_shares.val]>>)
               ELSE key_shares
       ELSE Ok(<<ciphertext, metadata>>)

\* The calls encrypt_model(model_data, config) has made, in order, when it
\* returns or raises: the threshold configuration is first looked at after the
\* metadata is built, and checked inside _create_key_shares.
encrypt_model_calls(config) ==
    LET made == <<"secrets.token_bytes(32)", "secrets.token_bytes(12)",
                  "AESGCM.encrypt", "_encrypt_key_for_owner">>
    IN IF config.threshold_shares > 0
       THEN made \o <<"_create_key_shares">>
       ELSE made

\* The body of decrypt_model's try block.
decrypt_model_try(account_key, encrypted_data, metadata) ==
    LET nonce_hex == Item(metadata, "nonce")
        nonce == fromhex(nonce_hex.val)
        encrypted_key == Item(metadata, "encrypted_key")
        key == decrypt_key_from_owner(account_key, encrypted_key.val)
    IN IF ~nonce_hex.ok THEN nonce_hex
       ELSE IF ~nonce.ok THEN nonce
       ELSE IF ~encrypted_key.ok THEN encrypted_key
       ELSE IF ~key.ok THEN key
       ELSE AESGCM_decrypt(key.val, nonce.val, encrypted_data)

\* A decrypt_model that lets the exceptions of its body through.
decrypt_model_uncaught(account_key, encrypted_data, metadata) ==
    decrypt_model_try(account_key, encrypted_data, metadata)

\* decrypt_model(encrypted_data, metadata)
decrypt_model(account_key, encrypted_data, metadata) ==
    LET plaintext == decrypt_model_try(account_key, encrypted_data, metadata)
    IN IF plaintext.ok THEN plaintext
       ELSE Raise("CitrateError", "Model decryption failed")

(***************************************************************************)
(* One encrypt_model call, then one decrypt_model call by a KeyManager on  *)
(* the pair returned, possibly altered in one bit on the way.  Byte        *)
(* strings the code makes 32, 12 and 32 bytes long are KeyLen, NonceLen    *)
(* and SaltLen bytes long here.                                            *)
(***************************************************************************)
KeyLen == 2

NonceLen == 1

SaltLen == 2

\* str.encode('utf-8') and bytes.decode('utf-8') on text of code points below
\* 128; a byte from 128 on that stands alone is no UTF-8.
encode_utf8(data) == data

decode_utf8(b) ==
    IF \E k \in 1..Len(b) : b[k] >= 128
    THEN Raise("UnicodeDecodeError", "invalid start byte")
    ELSE Ok(b)

\* encrypt_data(data); key and nonce are what secrets.token_bytes returned.
encrypt_data(data, key, nonce) ==
    LET ciphertext == AESGCM_encrypt(key, nonce, encode_utf8(data))
    IN [kind |-> "object",
        members |-> json_dumps([ciphertext |-> ciphertext_hex(ciphertext),
                                nonce |-> hex(nonce),
                                key |-> hex(key)],
                               <<"ciphertext", "nonce", "key">>)]

\* json.loads of a text that is a JSON object, another JSON value, or no JSON;
\* subscripting another JSON value by a name raises TypeError.
package_loads(encrypted_package) ==
    CASE encrypted_package.kind = "object" -> Ok(json_loads(encrypted_package.members))
      [] encrypted_package.kind = "array" ->
            Raise("TypeError", "list indices must be integers or slices, not str")
      [] OTHER -> Raise("JSONDecodeError", "Expecting value")

\* AESGCM(key): the key has one of the accepted lengths.
AESGCM(key) ==
    IF Len(key) = KeyLen THEN Ok(key)
    ELSE Raise("ValueError", "AESGCM key must be 128, 192, or 256 bits.")

\* The body of decrypt_data's try block.
decrypt_data_try(encrypted_package) ==
    LET package == package_loads(encrypted_package)
        ct_hex == Item(package.val, "ciphertext")
        ciphertext == ciphertext_fromhex(ct_hex.val)
        nonce_hex == Item(package.val, "nonce")
        nonce == fromhex(nonce_hex.val)
        key_hex == Item(package.val, "key")
        key == fromhex(key_hex.val)
        aesgcm == AESGCM(key.val)
        plaintext == AESGCM_decrypt(aesgcm.val, nonce.val, ciphertext.val)
    IN IF ~package.ok THEN package
       ELSE IF ~ct_hex.ok THEN ct_hex
       ELSE IF ~ciphertext.ok THEN ciphertext
       ELSE IF ~nonce_hex.ok THEN nonce_hex
       ELSE IF ~nonce.ok THEN nonce
       ELSE IF ~key_hex.ok THEN key_hex
       ELSE IF ~key.ok THEN key
       ELSE IF ~aesgcm.ok THEN aesgcm
       ELSE IF ~plaintext.ok THEN plaintext
       ELSE decode_utf8(plaintext.val)

\* decrypt_data(encrypted_package)
decrypt_data(encrypted_package) ==
    LET data == decrypt_data_try(encrypted_package)
    IN IF data.ok THEN data
       ELSE Raise("CitrateError", "Data decryption failed")

\* secrets.token_bytes(n): one of a few byte strings of length n.
TokenSeeds == {64, 160}

token_bytes(n) == {[k \in 1..n |-> seed + k] : seed \in TokenSeeds}

AccountKeys == {<<17, 18>>, <<34, 35>>}

ModelData == {<<>>, <<104>>, <<104, 105>>}

\* The coefficients random.randint returns during an envelope's split: not 0,
\* so that no share of a threshold above 1 is the key by coincidence.
EnvelopeRandBytes == {29, 113}

Configs ==
    {EncryptionConfig(c[1], c[2]) :
        c \in {<<0, 0>>, <<0, 2>>, <<-1, 0>>, <<1, 1>>, <<1, 2>>, <<2, 2>>,
               <<2, 1>>, <<1, MaxTotal + 1>>, <<0, MaxTotal + 1>>}}

\* What the random source can return during encrypt_model(model_data, config).
\* The data key and the salt, drawn independently, differ.
Rands(config) ==
    LET sss == ShamirSecretSharing(config.threshold_shares, config.total_shares)
        draws == IF config.threshold_shares > 0 /\ sss.ok
                 THEN [1..config.total_shares ->
                          [1..KeyLen -> [1..(config.threshold_shares - 1) -> EnvelopeRandBytes]]]
                 ELSE {<<>>}
    IN {r \in [key : token_bytes(KeyLen), nonce : token_bytes(NonceLen),
               salt : token_bytes(SaltLen), wrap_nonce : token_bytes(NonceLen),
               drawn : draws] : r.key # r.salt}

EnvelopeInit ==
    /\ TablesInit
    /\ CallerIdle
    /\ ThreadsIdle
    /\ ShamirIdle
    /\ EnvelopeIdle
    /\ ECDHIdle
    /\ ClientIdle

\* km.encrypt_model(model_data, config)
EncryptModel ==
    /\ env_call = <<>>
    /\ data_pkg = <<>>
    /\ \E owner \in AccountKeys, model_data \in ModelData, config \in Configs :
       \E rand \in Rands(config) :
         /\ env_call' = [owner |-> owner, model_data |-> model_data,
                         config |-> config, rand |-> rand,
                         calls |-> encrypt_model_calls(config)]
         /\ env_out' = encrypt_model(owner, model_data, config, rand)
         /\ TablesAfter(/\ config.threshold_shares > 0
                        /\ ShamirSecretSharing(config.threshold_shares,
                                               config.total_shares).ok)
    /\ UNCHANGED <<dec_call, data_pkg, data_dec, exceptEnvelope>>

\* One bit of a ciphertext flipped: in byte `at` of the body, or in the tag.
FlipBody(ct, at, bit) == [ct EXCEPT !.body[at] = Xor(@, 2 ^ bit)]

FlipTag(ct, bit) ==
    [ct EXCEPT !.tag.flipped = (@ \ {bit}) \cup ({bit} \ @)]

\* One bit of the wrapped-key ciphertext flipped inside metadata["encrypted_key"]:
\* bit 0 of the hex digit `at` of its body, or a bit of its tag.
FlipWrapped(metadata, part, at, bit) ==
    LET text == metadata["encrypted_key"]
        flipped == [k \in 1..Len(text) |->
                      IF text[k][1] # "encrypted_key" THEN text[k]
                      ELSE <<text[k][1],
                             IF part = "body"
                             THEN [text[k][2] EXCEPT !.body[at] = Xor(@, 1)]
                             ELSE FlipTag(text[k][2], bit)>>]
    IN [metadata EXCEPT !["encrypted_key"] = flipped]

\* A dict without some of its keys.
Without(d, names) == [name \in (DOMAIN d) \ names |-> d[name]]

TagBits == {0, 127}

ByteBits == {0, 7}

\* The ways the pair is altered between the two calls.
Alterings ==
    {[what |-> "none", at |-> 0, bit |-> 0]}
    \cup [what : {"payload body"}, at : 1..Len(env_out.val[1].body), bit : ByteBits]
    \cup [what : {"payload tag"}, at : {0}, bit : TagBits]
    \cup [what : {"wrapped body"}, at : 1..(2 * KeyLen), bit : {0}]
    \cup [what : {"wrapped tag"}, at : {0}, bit : TagBits]
    \cup [what : {"no nonce", "no encrypted_key", "no nonce, no encrypted_key"},
          at : {0}, bit : {0}]

Altered(pair, a) ==
    CASE a.what = "none"         -> pair
      [] a.what = "payload body" -> <<FlipBody(pair[1], a.at, a.bit), pair[2]>>
      [] a.what = "payload tag"  -> <<FlipTag(pair[1], a.bit), pair[2]>>
      [] a.what = "wrapped body" -> <<pair[1], FlipWrapped(pair[2], "body", a.at, a.bit)>>
      [] a.what = "wrapped tag"  -> <<pair[1], FlipWrapped(pair[2], "tag", a.at, a.bit)>>
      [] a.what = "no nonce"     -> <<pair[1], Without(pair[2], {"nonce"})>>
      [] a.what = "no encrypted_key" -> <<pair[1], Without(pair[2], {"encrypted_key"})>>
      [] a.what = "no nonce, no encrypted_key"
                                 -> <<pair[1], Without(pair[2], {"nonce", "encrypted_key"})>>

\* km2.decrypt_model(encrypted_data, metadata), km2 holding account key `owner`
DecryptModel ==
    /\ env_out # <<>> /\ env_out.ok
    /\ dec_call = <<>>
    /\ \E owner \in AccountKeys, a \in Alterings :
         LET pair == Altered(env_out.val, a)
         IN dec_call' = [owner |-> owner, encrypted_data |-> pair[1],
                         metadata |-> pair[2], altered |-> a,
                         res |-> decrypt_model(owner, pair[1], pair[2])]
    /\ UNCHANGED <<env_call, env_out, data_pkg, data_dec, fieldVars, exceptEnvelope>>

\* The strings handed to encrypt_data.
DataStrings == {<<>>, <<104, 105>>}

\* km.encrypt_data(data)
EncryptData ==
    /\ env_call = <<>>
    /\ data_pkg = <<>>
    /\ \E data \in DataStrings, key \in token_bytes(KeyLen), nonce \in token_bytes(NonceLen) :
         data_pkg' = [data |-> data, key |-> key, nonce |-> nonce,
                      package |-> encrypt_data(data, key, nonce)]
    /\ UNCHANGED <<env_call, env_out, dec_call, data_dec, fieldVars, exceptEnvelope>>

PackageNames == {"ciphertext", "nonce", "key"}

\* The ways a package is altered before decrypt_data: a member dropped, a
\* member's value made non-hex (a digit that is none, or a digit short), the
\* key shortened by a byte, the text made a JSON array or no JSON at all.
PackageAlterings ==
    {[what |-> "none", name |-> ""], [what |-> "array", name |-> ""],
     [what |-> "no json", name |-> ""], [what |-> "short key", name |-> "key"]}
    \cup [what : {"dropped", "no digit", "odd digits"}, name : PackageNames]

\* A hex string made non-hex.
Spoilt(h, what) == IF what = "no digit" THEN <<16>> \o h ELSE <<1>> \o h

AlteredValue(name, value, a) ==
    IF name # a.name THEN value
    ELSE IF a.what = "short key" THEN SubSeq(value, 1, Len(value) - 2)
    ELSE IF name = "ciphertext" THEN [value EXCEPT !.body = Spoilt(@, a.what)]
    ELSE Spoilt(value, a.what)

AlteredPackage(package, a) ==
    CASE a.what = "none" -> package
      [] a.what = "array" -> [package EXCEPT !.kind = "array"]
      [] a.what = "no json" -> [package EXCEPT !.kind = "no json"]
      [] a.what = "dropped" ->
            [package EXCEPT !.members =
                SelectSeq(@, LAMBDA member : member[1] # a.name)]
      [] OTHER ->
            [package EXCEPT !.members =
                [k \in 1..Len(@) |-> <<@[k][1], AlteredValue(@[k][1], @[k][2], a)>>]]

\* km.decrypt_data(encrypted_package)
DecryptData ==
    /\ data_pkg # <<>>
    /\ data_dec = <<>>
    /\ \E a \in PackageAlterings :
         LET encrypted_package == AlteredPackage(data_pkg.package, a)
         IN data_dec' = [encrypted_package |-> encrypted_package, altered |-> a,
                         res |-> decrypt_data(encrypted_package)]
    /\ UNCHANGED <<env_call, env_out, dec_call, data_pkg, fieldVars, exceptEnvelope>>

EnvelopeNext ==
    \/ EncryptModel
    \/ DecryptModel
    \/ EncryptData
    \/ DecryptData

SpecEnvelope == EnvelopeInit /\ [][EnvelopeNext]_vars

Decrypted == dec_call # <<>>

SameEnvelope == dec_call.altered.what = "none"

\* C3: whatever the payload (the empty one included) and the random key,
\* nonces and salt, a KeyManager with the encrypting account key that calls
\* decrypt_model on the unaltered pair encrypt_model returned for a config
\* without threshold sharing gets the payload back.
C3_EnvelopeRoundTrip ==
    (/\ Decrypted
     /\ SameEnvelope
     /\ dec_call.owner = env_call.owner
     /\ env_call.config.threshold_shares <= 0)
    => dec_call.res = Ok(env_call.model_data)

\* The empty payload made the round trip.
C3_Witness ==
    /\ Decrypted
    /\ SameEnvelope
    /\ dec_call.owner = env_call.owner
    /\ env_call.config.threshold_shares = 0
    /\ env_call.model_data = <<>>
    /\ "key_shares" \notin DOMAIN env_out.val[2]
    /\ dec_call.res = Ok(<<>>)

\* C4: decrypt_model fails with an error when a bit of the payload ciphertext
\* or of the wrapped-key ciphertext was flipped or when its KeyManager holds
\* another account key; whenever it returns, it returns the original payload.
C4_TamperDetected ==
    Decrypted =>
        /\ (~SameEnvelope \/ dec_call.owner # env_call.owner) =>
              /\ ~dec_call.res.ok
              /\ dec_call.res.err = "CitrateError"
        /\ dec_call.res.ok => dec_call.res.val = env_call.model_data

\* A bit of the wrapped-key ciphertext body was flipped and the owner's
\* decrypt_model raised.
C4_Witness ==
    /\ Decrypted
    /\ dec_call.altered.what = "wrapped body"
    /\ dec_call.owner = env_call.owner
    /\ env_call.model_data = <<104, 105>>
    /\ ~dec_call.res.ok

\* C5: no field of the metadata encrypt_model returns is the data key: not the
\* nonce, not a field of the wrapped-key package, not the y of a key share.
C5_KeyNotInMetadata ==
    (env_out # <<>> /\ env_out.ok) =>
        LET metadata == env_out.val[2]
            package == json_loads(metadata["encrypted_key"])
            key == hex(env_call.rand.key)
        IN /\ metadata["nonce"] # key
           /\ package["encrypted_key"].body # key
           /\ package["nonce"] # key
           /\ package["salt"] # key
           /\ "key_shares" \in DOMAIN metadata =>
                 \A k \in 1..Len(metadata["key_shares"]) :
                     metadata["key_shares"][k].y # key

(***************************************************************************)
(* ECDHManager.  The curve is secp256k1's y^2 = x^3 + 7 over a field       *)
(* scaled down to 43 elements: 43 = 3 mod 4 as secp256k1's p is, and the   *)
(* group has prime order 31, so that as on secp256k1 no point has y = 0.   *)
(* A coordinate takes CoordLen bytes where the code's takes 32.            *)
(***************************************************************************)
\* p, a, b of _recover_y_coordinate
curve_p == 43

curve_a == 0

curve_b == 7

curve_order == 31

CoordLen == 2

\* pow(base, e, m)
RECURSIVE pow(_, _, _)
pow(base, e, m) ==
    IF e = 0 THEN 1 % m
    ELSE LET h == pow(base, e \div 2, m)
         IN IF e % 2 = 0 THEN (h * h) % m ELSE (((h * h) % m) * base) % m

\* n.to_bytes(length, 'big')
to_bytes(n, length) ==
    [k \in 1..length |-> (n \div (256 ^ (length - k))) % 256]

\* int.from_bytes(b, 'big')
RECURSIVE from_bytes(_)
from_bytes(b) ==
    IF b = <<>> THEN 0 ELSE from_bytes(SubSeq(b, 1, Len(b) - 1)) * 256 + b[Len(b)]

\* Points of the curve group: the point at infinity, or (x, y).
Infinity == [inf |-> TRUE, x |-> 0, y |-> 0]

Point(x, y) == [inf |-> FALSE, x |-> x, y |-> y]

on_curve(x, y) ==
    /\ x \in 0..(curve_p - 1)
    /\ y \in 0..(curve_p - 1)
    /\ (y * y) % curve_p = (pow(x, 3, curve_p) + curve_a * x + curve_b) % curve_p

point_add(P, Q) ==
    IF P.inf THEN Q
    ELSE IF Q.inf THEN P
    ELSE IF P.x = Q.x /\ (P.y + Q.y) % curve_p = 0 THEN Infinity
    ELSE LET slope == IF P = Q
                      THEN (3 * P.x * P.x + curve_a)
                               * pow((2 * P.y) % curve_p, curve_p - 2, curve_p)
                      ELSE ((Q.y - P.y) % curve_p)
                               * pow((Q.x - P.x) % curve_p, curve_p - 2, curve_p)
             l == slope % curve_p
             x == (l * l - P.x - Q.x) % curve_p
         IN Point(x, (l * (P.x - x) - P.y) % curve_p)

RECURSIVE scalar_mult(_, _)
scalar_mult(d, P) ==
    IF d = 0 THEN Infinity
    ELSE LET h == scalar_mult(d \div 2, P)
             hh == point_add(h, h)
         IN IF d % 2 = 0 THEN hh ELSE point_add(hh, P)

\* The base point.
curve_G == Point(2, 12)

\* ECDHManager.__init__: the key pair of a private value.
ECDHManager(private_value) ==
    [private_value |-> private_value,
     public_key |-> scalar_mult(private_value, curve_G)]

PrivLen == 2

\* An optional bytes argument: None, or the bytes given.
None == [none |-> TRUE, bytes |-> <<>>]

Given(b) == [none |-> FALSE, bytes |-> b]

\* ec.derive_private_key(private_value, SECP256K1()): the library refuses a
\* value outside 1..order-1.
derive_private_key(private_value) ==
    IF private_value \in 1..(curve_order - 1) THEN Ok(ECDHManager(private_value))
    ELSE Raise("ValueError", "Invalid EC key")

\* ECDHManager.__init__(private_key_bytes); generated is the private value
\* ec.generate_private_key draws if it is called.  `if private_key_bytes:` is
\* false for None and for the empty byte string.
ECDHManager_init(private_key_bytes, generated) ==
    IF ~private_key_bytes.none /\ private_key_bytes.bytes # <<>>
    THEN IF Len(private_key_bytes.bytes) # PrivLen
         THEN Raise("CitrateError", "Private key must be 32 bytes")
         ELSE derive_private_key(from_bytes(private_key_bytes.bytes))
    ELSE Ok(ECDHManager(generated))

\* get_public_key_compressed()
get_public_key_compressed(self) == to_bytes(self.public_key.x, CoordLen)

\* get_public_key_uncompressed()
get_public_key_uncompressed(self) ==
    <<4>> \o to_bytes(self.public_key.x, CoordLen) \o to_bytes(self.public_key.y, CoordLen)

\* A recovery that returns the root as computed, whatever its parity.
recover_y_coordinate_root_only(x, is_odd) ==
    LET y_squared == (pow(x, 3, curve_p) + curve_a * x + curve_b) % curve_p
    IN pow(y_squared, (curve_p + 1) \div 4, curve_p)

\* _recover_y_coordinate(x, is_odd)
recover_y_coordinate(x, is_odd) ==
    LET y_squared == (pow(x, 3, curve_p) + curve_a * x + curve_b) % curve_p
        y == pow(y_squared, (curve_p + 1) \div 4, curve_p)
    IN IF (y % 2 = 1) # is_odd THEN curve_p - y ELSE y

\* EllipticCurvePublicNumbers(x, y, SECP256K1()).public_key(): the library
\* refuses a point that is not on the curve.
public_numbers_public_key(x, y) ==
    IF on_curve(x, y) THEN Ok(Point(x, y))
    ELSE Raise("ValueError", "Invalid EC key.")

\* An exchange that returns the y coordinate of the shared point.
exchange_y(private_value, peer_public_key) ==
    LET shared == scalar_mult(private_value, peer_public_key)
    IN IF shared.inf THEN Raise("ValueError", "Error computing shared key.")
       ELSE Ok(to_bytes(shared.y, CoordLen))

\* private_key.exchange(ec.ECDH(), peer_public_key): the x coordinate of the
\* shared point.
exchange(private_value, peer_public_key) ==
    LET shared == scalar_mult(private_value, peer_public_key)
    IN IF shared.inf THEN Raise("ValueError", "Error computing shared key.")
       ELSE Ok(to_bytes(shared.x, CoordLen))

\* The try block without the check of the compressed form's prefix: any
\* prefix other than 3 is read as even y.
perform_ecdh_try_any_prefix(self, peer_public_key_bytes) ==
    LET b == peer_public_key_bytes
        numbers ==
            IF Len(b) = CoordLen
            THEN LET x == from_bytes(b)
                 IN Ok(<<x, recover_y_coordinate(x, FALSE)>>)
            ELSE IF Len(b) = CoordLen + 1
            THEN LET x == from_bytes(Tail(b))
                 IN Ok(<<x, recover_y_coordinate(x, b[1] = 3)>>)
            ELSE IF Len(b) = 2 * CoordLen + 1
            THEN IF b[1] # 4
                 THEN Raise("CitrateError", "Invalid uncompressed public key prefix")
                 ELSE Ok(<<from_bytes(SubSeq(b, 2, CoordLen + 1)),
                           from_bytes(SubSeq(b, CoordLen + 2, 2 * CoordLen + 1))>>)
            ELSE Raise("CitrateError", "Invalid public key length")
    IN IF ~numbers.ok THEN numbers
       ELSE LET peer_public_key == public_numbers_public_key(numbers.val[1], numbers.val[2])
            IN IF ~peer_public_key.ok THEN peer_public_key
               ELSE exchange(self.private_value, peer_public_key.val)

\* perform_ecdh: the coordinates parsed from the peer's public key bytes.
peer_public_numbers(peer_public_key_bytes) ==
    LET b == peer_public_key_bytes
    IN IF Len(b) = CoordLen
       THEN LET x == from_bytes(b)
            IN Ok(<<x, recover_y_coordinate(x, FALSE)>>)
       ELSE IF Len(b) = CoordLen + 1
       THEN IF b[1] \notin {2, 3}
            THEN Raise("CitrateError", "Invalid compressed public key prefix")
            ELSE LET x == from_bytes(Tail(b))
                 IN Ok(<<x, recover_y_coordinate(x, b[1] = 3)>>)
       ELSE IF Len(b) = 2 * CoordLen + 1
       THEN IF b[1] # 4
            THEN Raise("CitrateError", "Invalid uncompressed public key prefix")
            ELSE Ok(<<from_bytes(SubSeq(b, 2, CoordLen + 1)),
                      from_bytes(SubSeq(b, CoordLen + 2, 2 * CoordLen + 1))>>)
       ELSE Raise("CitrateError", "Invalid public key length")

\* The body of perform_ecdh's try block.
perform_ecdh_try(self, peer_public_key_bytes) ==
    LET numbers == peer_public_numbers(peer_public_key_bytes)
    IN IF ~numbers.ok THEN numbers
       ELSE LET peer_public_key == public_numbers_public_key(numbers.val[1], numbers.val[2])
            IN IF ~peer_public_key.ok THEN peer_public_key
               ELSE exchange(self.private_value, peer_public_key.val)

\* perform_ecdh(peer_public_key_bytes)
perform_ecdh(self, peer_public_key_bytes) ==
    LET shared_key == perform_ecdh_try(self, peer_public_key_bytes)
    IN IF shared_key.ok THEN shared_key
       ELSE Raise("CitrateError", "ECDH key exchange failed")

\* derive_shared_secret(peer_public_key_bytes, salt, info)
derive_shared_secret(self, peer_public_key_bytes, salt, info) ==
    LET shared_key == perform_ecdh(self, peer_public_key_bytes)
    IN IF shared_key.ok THEN Ok(HKDF_derive(salt, info, shared_key.val))
       ELSE shared_key

(***************************************************************************)
(* Two parties generate key pairs independently, exchange their public     *)
(* keys in one of the forms the class returns, and each derives the        *)
(* shared secret from its private key and the other's public key bytes.    *)
(***************************************************************************)
Parties == {"A", "B"}

Peer(party) == IF party = "A" THEN "B" ELSE "A"

Forms == {"x-only", "uncompressed"}

HkdfSalts == {<<115>>, <<116>>}

HkdfInfos == {<<105>>}

ECDHInit ==
    /\ TablesInit
    /\ CallerIdle
    /\ ThreadsIdle
    /\ ShamirIdle
    /\ EnvelopeIdle
    /\ ec_keys = [party \in Parties |-> <<>>]
    /\ ec_args = <<>>
    /\ ec_derived = [party \in Parties |-> <<>>]
    /\ ec_load = [party \in Parties |-> <<>>]
    /\ ec_call = <<>>
    /\ ClientIdle

\* ECDHManager(): ec.generate_private_key draws a private value in 1..order-1
GenerateKeypair(party) ==
    /\ ec_keys[party] = <<>>
    /\ ec_load[party] = <<>>
    /\ ec_call = <<>>
    /\ \E private_value \in 1..(curve_order - 1) :
         ec_keys' = [ec_keys EXCEPT ![party] = ECDHManager(private_value)]
    /\ UNCHANGED <<ec_args, ec_derived, ec_load, ec_call, exceptECDH>>

\* The byte strings handed to ECDHManager(private_key_bytes): one of each
\* length up to PrivLen + 1, and of the right length the values 0 and order.
LoadArgs ==
    {[k \in 1..n |-> IF k = n THEN 5 ELSE 0] : n \in 0..(PrivLen + 1)}
    \cup {to_bytes(0, PrivLen), to_bytes(curve_order, PrivLen)}

GeneratedValues == {7, 23}

\* ECDHManager(private_key_bytes) with bytes supplied
LoadKeypair(party) ==
    /\ ec_keys[party] = <<>>
    /\ ec_load[party] = <<>>
    /\ ec_call = <<>>
    /\ \E b \in LoadArgs, generated \in GeneratedValues :
         LET res == ECDHManager_init(Given(b), generated)
         IN /\ ec_load' = [ec_load EXCEPT ![party] = [arg |-> b, res |-> res]]
            /\ ec_keys' = IF res.ok THEN [ec_keys EXCEPT ![party] = res.val]
                          ELSE ec_keys
    /\ UNCHANGED <<ec_args, ec_derived, ec_call, exceptECDH>>

\* The parties settle the form in which public keys travel, the salt and the info.
Agree ==
    /\ ec_args = <<>>
    /\ ec_call = <<>>
    /\ \A party \in Parties : ec_keys[party] # <<>>
    /\ \E form \in Forms, salt \in HkdfSalts, info \in HkdfInfos :
         ec_args' = [form |-> form, salt |-> salt, info |-> info]
    /\ UNCHANGED <<ec_keys, ec_derived, ec_load, ec_call, exceptECDH>>

\* The bytes a party sends as its public key.
PublicKeyBytes(self, form) ==
    IF form = "x-only" THEN get_public_key_compressed(self)
    ELSE get_public_key_uncompressed(self)

\* party.derive_shared_secret(peer's public key bytes, salt, info)
Derive(party) ==
    /\ ec_args # <<>>
    /\ ec_derived[party] = <<>>
    /\ ec_derived' = [ec_derived EXCEPT ![party] =
          derive_shared_secret(ec_keys[party],
                               PublicKeyBytes(ec_keys[Peer(party)], ec_args.form),
                               ec_args.salt, ec_args.info)]
    /\ UNCHANGED <<ec_keys, ec_args, ec_load, ec_call, exceptECDH>>

\* ECDSA over SHA-256, idealised: a signature names the key that made it and
\* the message it was made for; der is FALSE for bytes that are no DER
\* signature.
Signature(der, signer, message) ==
    [der |-> der, signer |-> signer, message |-> message]

\* sign_message(message)
sign_message(self, message) == Signature(TRUE, self.public_key, message)

\* public_key.verify(signature, message, ECDSA(SHA256())): raises
\* InvalidSignature unless the signature was made by this key for this message.
public_key_verify(public_key, signature, message) ==
    IF signature.der /\ signature.signer = public_key /\ signature.message = message
    THEN Ok(TRUE)
    ELSE Raise("InvalidSignature", "")

\* The try block with a third branch that reads a key of the x-only length as
\* perform_ecdh does, with the even y.
verify_signature_try_x_only(self, message, signature, public_key_bytes) ==
    LET b == public_key_bytes
        numbers ==
            IF Len(b) = CoordLen + 1
            THEN LET x == from_bytes(Tail(b))
                 IN <<x, recover_y_coordinate(x, b[1] = 3)>>
            ELSE IF Len(b) = CoordLen
            THEN LET x == from_bytes(b)
                 IN <<x, recover_y_coordinate(x, FALSE)>>
            ELSE <<from_bytes(SubSeq(b, 2, CoordLen + 1)),
                   from_bytes(SubSeq(b, CoordLen + 2, 2 * CoordLen + 1))>>
    IN IF Len(b) \notin {CoordLen, CoordLen + 1, 2 * CoordLen + 1} THEN Ok(FALSE)
       ELSE LET public_key == public_numbers_public_key(numbers[1], numbers[2])
            IN IF ~public_key.ok THEN public_key
               ELSE public_key_verify(public_key.val, signature, message)

\* The body of verify_signature's try block.
verify_signature_try(self, message, signature, public_key_bytes) ==
    LET b == public_key_bytes
        numbers ==
            IF Len(b) = CoordLen + 1
            THEN LET x == from_bytes(Tail(b))
                 IN <<x, recover_y_coordinate(x, b[1] = 3)>>
            ELSE <<from_bytes(SubSeq(b, 2, CoordLen + 1)),
                   from_bytes(SubSeq(b, CoordLen + 2, 2 * CoordLen + 1))>>
    IN IF Len(b) \notin {CoordLen + 1, 2 * CoordLen + 1} THEN Ok(FALSE)
       ELSE LET public_key == public_numbers_public_key(numbers[1], numbers[2])
            IN IF ~public_key.ok THEN public_key
               ELSE public_key_verify(public_key.val, signature, message)

\* verify_signature(message, signature, public_key_bytes): every exception
\* of the try block becomes False.
verify_signature(self, message, signature, public_key_bytes) ==
    LET r == verify_signature_try(self, message, signature, public_key_bytes)
    IN IF r.ok THEN r ELSE Ok(FALSE)

\* Public key byte strings from outside, made of a point P: its well-formed
\* encodings, and strings with a wrong prefix, a wrong length, an x with no
\* point on the curve, an x outside the field, a y off the curve.
ProbeKeys(P) ==
    LET x == to_bytes(P.x, CoordLen)
        y == to_bytes(P.y, CoordLen)
        no_point == CHOOSE v \in 0..(curve_p - 1) :
                        \A w \in 0..(curve_p - 1) : ~on_curve(v, w)
        bad_x == to_bytes(no_point, CoordLen)
        big_x == to_bytes(P.x + curve_p, CoordLen)
    IN {x, <<2>> \o x, <<3>> \o x, <<4>> \o x \o y,
        <<5>> \o x, <<0>> \o x, <<4>> \o x, <<2>> \o x \o y, <<0>> \o x \o y,
        <<>>, SubSeq(x, 1, CoordLen - 1), <<4>> \o x \o y \o <<0>>,
        <<4>> \o x \o SubSeq(y, 1, CoordLen - 1),
        bad_x, <<2>> \o bad_x, big_x, <<4>> \o x \o to_bytes((P.y + 1) % curve_p, CoordLen)}

ProbePoints == {scalar_mult(4, curve_G), scalar_mult(5, curve_G)}

ECDHCall(op, party, public_key_bytes, message, signature, res) ==
    [op |-> op, party |-> party, public_key_bytes |-> public_key_bytes,
     message |-> message, signature |-> signature, res |-> res]

\* party.perform_ecdh(bytes) on a byte string from outside
CallPerformECDH(party) ==
    /\ ec_keys[party] # <<>>
    /\ ec_keys[Peer(party)] = <<>>
    /\ ec_call = <<>>
    /\ \E P \in ProbePoints : \E b \in ProbeKeys(P) :
         ec_call' = ECDHCall("perform_ecdh", party, b, <<>>, <<>>,
                             perform_ecdh(ec_keys[party], b))
    /\ UNCHANGED <<ec_keys, ec_args, ec_derived, ec_load, exceptECDH>>

\* party.derive_shared_secret(bytes, salt, info) on a byte string from outside
CallDeriveSharedSecret(party) ==
    /\ ec_keys[party] # <<>>
    /\ ec_keys[Peer(party)] = <<>>
    /\ ec_call = <<>>
    /\ \E P \in ProbePoints : \E b \in ProbeKeys(P) :
       \E salt \in HkdfSalts, info \in HkdfInfos :
         ec_call' = ECDHCall("derive_shared_secret", party, b, <<>>, <<>>,
                             derive_shared_secret(ec_keys[party], b, salt, info))
    /\ UNCHANGED <<ec_keys, ec_args, ec_derived, ec_load, exceptECDH>>

Messages == {<<1>>, <<2>>}

\* The signatures handed to verify_signature: the party's own over each
\* message, and bytes that are no DER signature.
Signatures(self) ==
    {sign_message(self, m) : m \in Messages}
    \cup {Signature(FALSE, self.public_key, <<1>>)}

\* party.verify_signature(message, signature, public_key_bytes) on a public
\* key byte string from outside
CallVerifySignature(party) ==
    /\ ec_keys[party] # <<>>
    /\ ec_keys[Peer(party)] = <<>>
    /\ ec_call = <<>>
    /\ \E P \in ProbePoints \cup {ec_keys[party].public_key} :
       \E b \in ProbeKeys(P), message \in Messages, signature \in Signatures(ec_keys[party]) :
         ec_call' = ECDHCall("verify_signature", party, b, message, signature,
                             verify_signature(ec_keys[party], message, signature, b))
    /\ UNCHANGED <<ec_keys, ec_args, ec_derived, ec_load, exceptECDH>>

ECDHNext ==
    \/ \E party \in Parties : GenerateKeypair(party)
    \/ \E party \in Parties : LoadKeypair(party)
    \/ Agree
    \/ \E party \in Parties : Derive(party)
    \/ \E party \in Parties : CallPerformECDH(party)
    \/ \E party \in Parties : CallDeriveSharedSecret(party)
    \/ \E party \in Parties : CallVerifySignature(party)

SpecECDH == ECDHInit /\ [][ECDHNext]_vars

BothDerived == \A party \in Parties : ec_derived[party] # <<>>

\* C2: for every two key pairs and one salt and info, both parties' derived
\* secrets exist and are equal, whether the public keys travelled as the x
\* coordinate alone (its y taken as even by the receiver) or uncompressed.
C2_ECDHSymmetry ==
    BothDerived =>
        /\ ec_derived["A"].ok
        /\ ec_derived["B"].ok
        /\ ec_derived["A"].val = ec_derived["B"].val

\* Public keys with odd y travelled as x alone, the private keys differ, and
\* both parties derived the same secret.
C2_Witness ==
    /\ BothDerived
    /\ ec_args.form = "x-only"
    /\ ec_keys["A"].public_key.y % 2 = 1
    /\ ec_keys["B"].public_key.y % 2 = 1
    /\ ec_keys["A"].private_value # ec_keys["B"].private_value
    /\ ec_derived["A"].ok
    /\ ec_derived["A"] = ec_derived["B"]

(***************************************************************************)
(* Properties of the scheme's parameters, share records and share checks   *)
(***************************************************************************)
HasSplit == sh_shares # <<>>

ValidParameters(threshold, total_shares) ==
    1 <= threshold /\ threshold <= total_shares /\ total_shares <= MaxTotal

\* C11: split_secret_bytes(secret, t, n) returns n shares when 1 <= t <= n <= 255
\* and otherwise raises ValueError from the constructor and returns no share.
C11_SplitParameterValidation ==
    HasSplit =>
        IF ValidParameters(sh_args.threshold, sh_args.total_shares)
        THEN /\ sh_shares.ok
             /\ Len(sh_shares.val) = sh_args.total_shares
        ELSE /\ ~sh_shares.ok
             /\ sh_shares.err = "ValueError"
             /\ sh_shares.val = 0

\* A split into 255 shares of threshold 1 succeeded.
C11_Witness ==
    /\ HasSplit
    /\ sh_args.threshold = 1
    /\ sh_args.total_shares = MaxTotal
    /\ sh_shares.ok
    /\ Len(sh_shares.val) = MaxTotal

\* C12: reconstruct_key_from_shares applied to the first t of the records
\* _create_key_shares(key, t, n) returned gives the key back.
C12_KeyShareRoundTrip ==
    (/\ Reconstructed
     /\ sh_recon.api = "reconstruct_key_from_shares"
     /\ sh_recon.threshold = sh_args.threshold
     /\ sh_recon.supplied = SubSeq(sh_shares.val, 1, sh_args.threshold))
    => sh_recon.res = Ok(sh_args.secret)

\* Two of the supplied shares have y of different lengths.
UnequalLengths(shares) ==
    \E k, l \in 1..Len(shares) : Len(shares[k][2]) # Len(shares[l][2])

\* C13: reconstruct_secret raises, and returns no secret, whenever two of the
\* supplied shares, among the first t or not, have y of different lengths.
C13_UnequalLengthsRejected ==
    (/\ Reconstructed
     /\ sh_recon.api = "reconstruct_secret"
     /\ UnequalLengths(sh_recon.supplied))
    => ~sh_recon.res.ok

Verified == sh_verify # <<>>

\* The secrets the windows of t consecutive supplied shares reconstruct.
WindowSecrets ==
    LET self == ShamirSecretSharing(sh_args.threshold, sh_args.total_shares).val
        windows == verify_windows(self, sh_verify.supplied)
    IN [i \in 1..Len(windows) |-> reconstruct_secret(self, windows[i])]

\* C14: verify_shares returns a boolean and never raises; it returns False
\* when fewer than t shares are supplied; it returns True only if every window
\* of t consecutive supplied shares reconstructs, and all to the same secret.
C14_VerifyChecksAgreement ==
    Verified =>
        /\ sh_verify.res.ok
        /\ sh_verify.res.val \in BOOLEAN
        /\ Len(sh_verify.supplied) < sh_args.threshold => sh_verify.res.val = FALSE
        /\ (Len(sh_verify.supplied) >= sh_args.threshold /\ sh_verify.res.val) =>
              \A i, j \in 1..Len(WindowSecrets) :
                  /\ WindowSecrets[i].ok
                  /\ WindowSecrets[i] = WindowSecrets[j]

(***************************************************************************)
(* Properties of key loading, public key encodings and decoding            *)
(***************************************************************************)
\* C15: ECDHManager(private_key_bytes) raises for every supplied byte string
\* whose length is not the private key length, the empty one included, and
\* makes no key pair then.
C15_PrivateKeyLengthEnforced ==
    \A party \in Parties :
        (ec_load[party] # <<>> /\ Len(ec_load[party].arg) # PrivLen) =>
            /\ ~ec_load[party].res.ok
            /\ ec_keys[party] = <<>>

\* C16: for every key pair, get_public_key_compressed returns the parity
\* prefix (2 for even y, 3 for odd y) followed by x, one byte more than a
\* coordinate, and get_public_key_uncompressed returns 4 followed by x and y.
C16_PublicKeyEncodings ==
    \A party \in Parties :
        ec_keys[party] # <<>> =>
            LET self == ec_keys[party]
                x == to_bytes(self.public_key.x, CoordLen)
                y == to_bytes(self.public_key.y, CoordLen)
                prefix == IF self.public_key.y % 2 = 0 THEN 2 ELSE 3
            IN /\ get_public_key_compressed(self) = <<prefix>> \o x
               /\ Len(get_public_key_compressed(self)) = CoordLen + 1
               /\ get_public_key_uncompressed(self) = <<4>> \o x \o y
               /\ Len(get_public_key_uncompressed(self)) = 2 * CoordLen + 1

\* A public key byte string of no accepted length, or of the compressed
\* length with a prefix other than 2 and 3, or of the uncompressed length with
\* a prefix other than 4.
MalformedKey(b) ==
    \/ Len(b) \notin {CoordLen, CoordLen + 1, 2 * CoordLen + 1}
    \/ Len(b) = CoordLen + 1 /\ b[1] \notin {2, 3}
    \/ Len(b) = 2 * CoordLen + 1 /\ b[1] # 4

ECDHCalled == ec_call # <<>> /\ ec_call.op \in {"perform_ecdh", "derive_shared_secret"}

\* C17: perform_ecdh and derive_shared_secret raise on every malformed key,
\* and whenever they raise, they raise CitrateError and return no secret.
C17_MalformedKeysRejected ==
    ECDHCalled =>
        /\ MalformedKey(ec_call.public_key_bytes) => ~ec_call.res.ok
        /\ ~ec_call.res.ok => (ec_call.res.err = "CitrateError" /\ ec_call.res.val = 0)

\* derive_shared_secret was handed a key of the compressed length with prefix
\* 5 and an x on the curve, and raised CitrateError.
C17_Witness ==
    /\ ECDHCalled
    /\ ec_call.op = "derive_shared_secret"
    /\ Len(ec_call.public_key_bytes) = CoordLen + 1
    /\ ec_call.public_key_bytes[1] = 5
    /\ \E w \in 0..(curve_p - 1) : on_curve(from_bytes(Tail(ec_call.public_key_bytes)), w)
    /\ ~ec_call.res.ok
    /\ ec_call.res.err = "CitrateError"

VerifyCalled == ec_call # <<>> /\ ec_call.op = "verify_signature"

\* The point a well-formed public key byte string encodes, if any.
DecodesTo(b, P) ==
    \/ Len(b) = CoordLen + 1 /\ b[1] = 2 + (P.y % 2)
         /\ Tail(b) = to_bytes(P.x, CoordLen)
    \/ b = <<4>> \o to_bytes(P.x, CoordLen) \o to_bytes(P.y, CoordLen)

\* C18: verify_signature never raises and returns a boolean; it returns False
\* whenever the public key is malformed, the signature is no DER signature,
\* or the signature was not made by the encoded key for the message.
C18_VerifyReturnsFalseOnMalformed ==
    VerifyCalled =>
        /\ ec_call.res.ok
        /\ ec_call.res.val \in BOOLEAN
        /\ ( \/ MalformedKey(ec_call.public_key_bytes)
             \/ ~ec_call.signature.der
             \/ ~DecodesTo(ec_call.public_key_bytes, ec_call.signature.signer)
             \/ ec_call.signature.message # ec_call.message )
           => ec_call.res.val = FALSE

\* ---------------------------------------------------------------------------
\* Properties of the order of validation and of the kinds of failure
\* ---------------------------------------------------------------------------

InvalidThreshold(config) ==
    \/ config.threshold_shares > config.total_shares
    \/ config.total_shares > MaxTotal

CryptographicWork ==
    {"secrets.token_bytes(32)", "secrets.token_bytes(12)", "AESGCM.encrypt",
     "_encrypt_key_for_owner"}

\* C19: encrypt_model with a threshold above the total, or a total above 255,
\* is rejected, and before the rejection no data key was generated, no
\* payload encrypted and no data key wrapped.
C19_ValidationBeforeWork ==
    (env_call # <<>> /\ InvalidThreshold(env_call.config)) =>
        /\ ~env_out.ok
        /\ \A k \in 1..Len(env_call.calls) : env_call.calls[k] \notin CryptographicWork

\* The kinds of error __init__ raises for parameters it refuses.
ParameterValidationKinds ==
    {ShamirSecretSharing(t, n).err :
        <<t, n>> \in {tn \in Thresholds \X Totals : ~ShamirSecretSharing(tn[1], tn[2]).ok}}

\* The kinds of error reconstruct_secret raises for as many shares as the
\* threshold whose y differ in length.
MalformedSharesKinds ==
    {reconstruct_secret([threshold |-> 2, total_shares |-> 2],
                        <<<<1, <<a>>>>, <<2, <<>>>>>>).err : a \in RandBytes}

\* C20: the error reconstruct_secret raises for fewer than t shares is of
\* another kind than the one it raises for y of unequal lengths, and the error
\* of a degenerate interpolation is of another kind than the errors of
\* parameter validation.
C20_FailureKindsDistinct ==
    (Reconstructed /\ sh_recon.api = "reconstruct_secret" /\ ~sh_recon.res.ok) =>
        /\ Len(sh_recon.supplied) < sh_recon.threshold
             => sh_recon.res.err \notin MalformedSharesKinds
        /\ DegenerateInterpolation(sh_recon.res)
             => sh_recon.res.err \notin ParameterValidationKinds

\* ---------------------------------------------------------------------------
\* Properties of the field's errors, products and tables
\* ---------------------------------------------------------------------------

DivisionByZero(res) == ~res.ok /\ res.err = "ZeroDivisionError"

ZeroCallsFail ==
    \A k \in 1..Len(f_calls) :
        /\ (f_calls[k].op = "divide" /\ f_calls[k].y = 0) => DivisionByZero(f_calls[k].res)
        /\ (f_calls[k].op = "inverse" /\ f_calls[k].x = 0) => DivisionByZero(f_calls[k].res)
        /\ (f_calls[k].op = "divide" /\ f_calls[k].x = 0 /\ f_calls[k].y # 0)
              => f_calls[k].res = Ok(0)

FailingCallKeepsTables ==
    (f_calls' # f_calls /\ ~f_calls'[Len(f_calls')].res.ok) => UNCHANGED fieldVars

\* C21: divide(a, 0) raises ZeroDivisionError for every a, 0 included, and
\* inverse(0) raises the same kind; divide(0, b) is 0 for every nonzero b; a
\* call that raises leaves the exp and log tables and the initialised flag
\* as they were.
C21_ZeroDivisionRejected == []ZeroCallsFail /\ [][FailingCallKeepsTables]_vars

\* After multiply(0, 0) built the tables, divide(0, 0) raised
\* ZeroDivisionError and the tables are still there.
C21_Witness ==
    /\ Len(f_calls) = 2
    /\ f_calls[2].op = "divide"
    /\ f_calls[2].x = 0 /\ f_calls[2].y = 0
    /\ DivisionByZero(f_calls[2].res)
    /\ initialized
    /\ exp_table # <<>>

\* Third operands for associativity and distributivity.
ThirdOperands == {0, 3, 142, 255}

MultiplyCalls == {k \in 1..Len(f_calls) : f_calls[k].op = "multiply"}

\* C22: multiply(a, b) is 0 when an operand is 0 and otherwise
\* exp[log[a] + log[b]], which is _multiply_raw(a, b); multiply is
\* commutative, associative and distributes over add.
C22_MultiplyAgreesWithReference ==
    \A k \in MultiplyCalls :
        LET a == f_calls[k].x
            b == f_calls[k].y
            c == f_calls[k].res.val
        IN /\ f_calls[k].res.ok
           /\ (a = 0 \/ b = 0) => c = 0
           /\ (a # 0 /\ b # 0) =>
                 c = At(exp_table, At(log_table, a) + At(log_table, b))
           /\ c = multiply_raw(a, b)
           /\ c = multiply(b, a)
           /\ \A d \in ThirdOperands :
                 /\ multiply(c, d) = multiply(a, multiply(b, d))
                 /\ multiply(a, add(b, d)) = add(c, multiply(a, d))

\* multiply(171, 60) returned the reference product, which is neither 0 nor
\* an operand.
C22_Witness ==
    /\ Len(f_calls) = 1
    /\ f_calls[1].op = "multiply"
    /\ f_calls[1].x = 171 /\ f_calls[1].y = 60
    /\ f_calls[1].res = Ok(multiply_raw(171, 60))
    /\ f_calls[1].res.val \notin {0, 171, 60}

\* exp[0..254] are the powers of 3 and a permutation of 1..255, log inverts
\* exp there, and exp[255..509] repeats exp[0..254].
TableInvariant(T) ==
    /\ Len(T.exp) = 512
    /\ Len(T.log) = 256
    /\ At(T.exp, 0) = 1
    /\ \A i \in 1..254 : At(T.exp, i) = multiply_raw(At(T.exp, i - 1), 3)
    /\ {At(T.exp, i) : i \in 0..254} = 1..255
    /\ \A i \in 0..254 : At(T.log, At(T.exp, i)) = i
    /\ \A i \in 255..509 : At(T.exp, i) = At(T.exp, i - 255)

TablesWellFormed == initialized => TableInvariant(CurTables)

BuiltTablesKept == initialized => UNCHANGED fieldVars

\* C23: once _initialize_tables has run, exp[0..254] is a permutation of
\* 1..255 with exp[i] = 3^i, log[exp[i]] = i, and exp[i] = exp[i - 255] for
\* i in 255..509; every later call leaves both tables unchanged.
C23_TablesBuiltOnce == []TablesWellFormed /\ [][BuiltTablesKept]_vars

\* A second call ran on tables the first call had built.
C23_Witness ==
    /\ initialized
    /\ Len(f_calls) = 2
    /\ f_calls[1].op = "_initialize_tables"
    /\ f_calls[2].op = "inverse"
    /\ f_calls[2].res.ok
    /\ TableInvariant(CurTables)

\* ---------------------------------------------------------------------------
\* Properties of the shares a reconstruction uses and a split returns
\* ---------------------------------------------------------------------------

\* Shares put in the place of those beyond the first t.
OtherShares == {<<1, <<>>>>, <<200, <<9, 9, 9>>>>}

\* The supplied shares with every share beyond the first t replaced by other.
BeyondReplaced(shares, t, other) ==
    [k \in 1..Len(shares) |-> IF k <= t THEN shares[k] ELSE other]

\* The reconstruction's call made again on other shares.
ReconAgain(shares) ==
    IF sh_recon.api = "reconstruct_secret"
    THEN reconstruct_secret(
             ShamirSecretSharing(sh_args.threshold, sh_args.total_shares).val, shares)
    ELSE reconstruct_secret_bytes(shares, sh_recon.threshold)

MoreThanThreshold ==
    /\ Reconstructed
    /\ sh_recon.api \in {"reconstruct_secret", "reconstruct_secret_bytes"}
    /\ sh_recon.threshold >= 1
    /\ Len(sh_recon.supplied) > sh_recon.threshold

\* C24: handed more than t shares, reconstruct_secret and
\* reconstruct_secret_bytes return (or raise) exactly what they do on the
\* first t shares alone, whatever the x and y of the shares beyond.
C24_OnlyFirstSharesUsed ==
    MoreThanThreshold =>
        /\ sh_recon.res = ReconAgain(SubSeq(sh_recon.supplied, 1, sh_recon.threshold))
        /\ \A other \in OtherShares :
              sh_recon.res =
                  ReconAgain(BeyondReplaced(sh_recon.supplied, sh_recon.threshold, other))

\* Three shares were supplied for threshold 2, the third one altered, and
\* the secret of the first two alone was returned.
C24_Witness ==
    /\ MoreThanThreshold
    /\ sh_recon.api = "reconstruct_secret"
    /\ sh_recon.threshold = 2
    /\ Len(sh_recon.supplied) = 3
    /\ \A i \in 1..Len(sh_shares.val) : sh_recon.supplied[3] # sh_shares.val[i]
    /\ sh_recon.res.ok
    /\ sh_recon.res = ReconAgain(SubSeq(sh_recon.supplied, 1, 2))

\* C25: a split with parameters (t, n) returns n shares in order, with x
\* exactly 1, 2, ..., n, each in 1..255, and y as long as the secret;
\* _create_key_shares returns n records carrying the x, the y and the
\* threshold t of the shares.  Looked at when the split has returned, before
\* any share is handed on.
C25_SplitShape ==
    (HasSplit /\ sh_shares.ok /\ ~Reconstructed /\ ~Verified) =>
        LET shares == sh_shares.val
            n == sh_args.total_shares
            records == create_key_shares(sh_args.secret, sh_args.threshold, n, sh_drawn)
        IN /\ Len(shares) = n
           /\ \A i \in 1..n :
                 /\ shares[i][1] = i
                 /\ shares[i][1] \in 1..255
                 /\ Len(shares[i][2]) = Len(sh_args.secret)
           /\ records.ok
           /\ Len(records.val) = n
           /\ \A i \in 1..n :
                 /\ DOMAIN records.val[i] = {"x", "y", "threshold"}
                 /\ int(records.val[i].x) = Ok(i)
                 /\ fromhex(records.val[i].y) = Ok(shares[i][2])
                 /\ records.val[i].threshold = str(sh_args.threshold)

\* A secret of two bytes was split into three shares of threshold 2.
C25_Witness ==
    /\ HasSplit
    /\ sh_shares.ok
    /\ sh_args.threshold = 2
    /\ sh_args.total_shares = 3
    /\ Len(sh_args.secret) = 2
    /\ Len(sh_shares.val) = 3
    /\ sh_shares.val[3][1] = 3

\* ---------------------------------------------------------------------------
\* Properties of y recovery
\* ---------------------------------------------------------------------------

\* x^3 + 7 is a square modulo the field prime.
Residue(x) ==
    \E w \in 0..(curve_p - 1) :
        (w * w) % curve_p = (pow(x, 3, curve_p) + curve_b) % curve_p

\* _recover_y_coordinate(x, is_odd) is a root in [0, p - 1] of the parity
\* asked for.
Recovered(x, is_odd) ==
    LET y == recover_y_coordinate(x, is_odd)
    IN /\ y \in 0..(curve_p - 1)
       /\ (y * y) % curve_p = (pow(x, 3, curve_p) + curve_b) % curve_p
       /\ (y % 2 = 1) <=> is_odd

\* The x a compressed or x-only key byte string carries.
CarriedX(b) == IF Len(b) = CoordLen THEN from_bytes(b) ELSE from_bytes(Tail(b))

RecoveringCall ==
    /\ ECDHCalled
    /\ ~MalformedKey(ec_call.public_key_bytes)
    /\ Len(ec_call.public_key_bytes) \in {CoordLen, CoordLen + 1}
    /\ Residue(CarriedX(ec_call.public_key_bytes))

\* C26: p is 3 modulo 4, and for every x with x^3 + 7 a square modulo p
\* _recover_y_coordinate(x, is_odd) returns a root y in [0, p - 1], odd when
\* is_odd and even otherwise; the prefixed compressed form takes the odd root
\* exactly for prefix 3 and the x-only form always the even root.
C26_YRecovery ==
    /\ curve_p % 4 = 3
    /\ \A party \in Parties :
          (ec_keys # <<>> /\ ec_keys[party] # <<>>) =>
              /\ Residue(ec_keys[party].public_key.x)
              /\ \A is_odd \in BOOLEAN : Recovered(ec_keys[party].public_key.x, is_odd)
              /\ recover_y_coordinate(ec_keys[party].public_key.x,
                                      ec_keys[party].public_key.y % 2 = 1)
                    = ec_keys[party].public_key.y
    /\ RecoveringCall =>
          LET b == ec_call.public_key_bytes
              x == CarriedX(b)
              is_odd == Len(b) = CoordLen + 1 /\ b[1] = 3
          IN /\ Recovered(x, is_odd)
             /\ peer_public_numbers(b) = Ok(<<x, recover_y_coordinate(x, is_odd)>>)
             /\ (peer_public_numbers(b).val[2] % 2 = 1) <=> is_odd

\* perform_ecdh was handed a key of prefix 3 whose x is on the curve, and the
\* odd root was taken.
C26_Witness ==
    /\ RecoveringCall
    /\ ec_call.op = "perform_ecdh"
    /\ Len(ec_call.public_key_bytes) = CoordLen + 1
    /\ ec_call.public_key_bytes[1] = 3
    /\ peer_public_numbers(ec_call.public_key_bytes).val[2] % 2 = 1
    /\ ec_call.res.ok

\* ---------------------------------------------------------------------------
\* Properties of decrypting malformed envelopes and packages
\* ---------------------------------------------------------------------------

DataDecrypted == data_dec # <<>>

FieldsMissing ==
    \/ "nonce" \notin DOMAIN dec_call.metadata
    \/ "encrypted_key" \notin DOMAIN dec_call.metadata

\* C27: decrypt_model on metadata without the nonce or the encrypted_key
\* raises the SDK error "Model decryption failed" and returns no plaintext;
\* decrypt_data on a package that is no JSON, lacks ciphertext, nonce or key,
\* or holds a non-hex value raises the SDK error "Data decryption failed"; no
\* other kind of exception leaves either call.
C27_MalformedEnvelopeRejected ==
    /\ Decrypted =>
          /\ FieldsMissing =>
                dec_call.res = Raise("CitrateError", "Model decryption failed")
          /\ ~dec_call.res.ok =>
                dec_call.res = Raise("CitrateError", "Model decryption failed")
    /\ DataDecrypted =>
          /\ data_dec.altered.what \in {"array", "no json", "dropped", "no digit", "odd digits"}
                => data_dec.res = Raise("CitrateError", "Data decryption failed")
          /\ ~data_dec.res.ok =>
                data_dec.res = Raise("CitrateError", "Data decryption failed")
          /\ data_dec.altered.what = "none" => data_dec.res = Ok(data_pkg.data)

\* decrypt_model was handed metadata without the nonce, by the owner of the
\* envelope, and raised the SDK error.
C27_Witness ==
    /\ Decrypted
    /\ dec_call.owner = env_call.owner
    /\ "nonce" \notin DOMAIN dec_call.metadata
    /\ "encrypted_key" \in DOMAIN dec_call.metadata
    /\ dec_call.res = Raise("CitrateError", "Model decryption failed")

(***************************************************************************)
(* LatticeClient: threads that call _rpc_call on one client.  The client   *)
(* holds no lock: "self._request_id += 1" reads the attribute, adds, and   *)
(* writes it, "return self._request_id" reads it again, and a thread can   *)
(* be preempted between any two of these.                                  *)
(***************************************************************************)
RequestsInit ==
    /\ TablesInit
    /\ CallerIdle
    /\ ThreadsIdle
    /\ ShamirIdle
    /\ EnvelopeIdle
    /\ ECDHIdle
    /\ rq_id = 0
    /\ rq_pc = [t \in Threads |-> "idle"]
    /\ rq_loc = [t \in Threads |-> 0]
    /\ rq_sent = <<>>
    /\ ReceiptIdle

\* The requests thread t has issued.
SentBy(t) == SelectSeq(rq_sent, LAMBDA request : request.thread = t)

\* _rpc_call(method, params) is entered: the payload's "id" is evaluated.
RpcCall(t) ==
    /\ rq_pc[t] = "idle"
    /\ Len(SentBy(t)) < MaxCalls
    /\ rq_pc' = [rq_pc EXCEPT ![t] = "load"]
    /\ UNCHANGED <<rq_id, rq_loc, rq_sent, receiptVars, exceptClient>>

\* self._request_id += 1: the attribute is read
NextIdLoad(t) ==
    /\ rq_pc[t] = "load"
    /\ rq_loc' = [rq_loc EXCEPT ![t] = rq_id]
    /\ rq_pc' = [rq_pc EXCEPT ![t] = "store"]
    /\ UNCHANGED <<rq_id, rq_sent, receiptVars, exceptClient>>

\* self._request_id += 1: the sum is written
NextIdStore(t) ==
    /\ rq_pc[t] = "store"
    /\ rq_id' = rq_loc[t] + 1
    /\ rq_pc' = [rq_pc EXCEPT ![t] = "return"]
    /\ UNCHANGED <<rq_loc, rq_sent, receiptVars, exceptClient>>

\* return self._request_id: the attribute is read again, and the request is
\* posted with that id.
NextIdReturn(t) ==
    /\ rq_pc[t] = "return"
    /\ rq_sent' = Append(rq_sent, [thread |-> t, id |-> rq_id])
    /\ rq_pc' = [rq_pc EXCEPT ![t] = "idle"]
    /\ UNCHANGED <<rq_id, rq_loc, receiptVars, exceptClient>>

RequestsNext ==
    \E t \in Threads :
        \/ RpcCall(t)
        \/ NextIdLoad(t)
        \/ NextIdStore(t)
        \/ NextIdReturn(t)

SpecRequests == RequestsInit /\ [][RequestsNext]_vars

\* C28: the requests one client issues carry ids that start at 1, increase
\* strictly in the order of each caller's calls, and are pairwise distinct
\* under every interleaving of the threads that call _rpc_call.
C28_RequestIdsUnique ==
    /\ \A k \in 1..Len(rq_sent) : rq_sent[k].id >= 1
    /\ \A t \in Threads :
          \A k, l \in 1..Len(SentBy(t)) : k < l => SentBy(t)[k].id < SentBy(t)[l].id
    /\ \A k, l \in 1..Len(rq_sent) : k # l => rq_sent[k].id # rq_sent[l].id

\* The signature is the one sign_message of its signer gives for the message
\* of the call.
OwnSignature ==
    /\ ec_call.signature.der
    /\ ec_call.signature.message = ec_call.message

XOnlyKeyOf(P) == to_bytes(P.x, CoordLen)

UncompressedKeyOf(P) == <<4>> \o to_bytes(P.x, CoordLen) \o to_bytes(P.y, CoordLen)

ReceiptTimeout == 3

PollTime == 1

\* What _rpc_call("eth_getTransactionReceipt", [tx_hash]) returns: null, an
\* empty object, or a receipt.
NoResult == [is |-> "None", size |-> 0, status |-> 0]

Dict(size, status) == [is |-> "dict", size |-> size, status |-> status]

RpcResults == {NoResult, Dict(0, 0), Dict(2, 0), Dict(2, 1)}

\* What one poll gives: a result, or LatticeError (RPC error, network error,
\* invalid JSON).
PollOutcomes ==
    {Ok(r) : r \in RpcResults} \cup {Raise("LatticeError", "RPC error")}

\* "if receipt:" taken for every result that is not None.
truthy_not_none(receipt) == receipt.is # "None"

\* "if receipt:"
truthy(receipt) == receipt.is = "dict" /\ receipt.size > 0

ReceiptInit ==
    /\ TablesInit
    /\ CallerIdle
    /\ ThreadsIdle
    /\ ShamirIdle
    /\ EnvelopeIdle
    /\ ECDHIdle
    /\ RequestsIdle
    /\ wr_pc = "idle"
    /\ wr_now = 0
    /\ wr_seen = <<>>
    /\ wr_res = <<>>
    /\ wr_timeout = 0

exceptReceipt == <<requestVars, exceptClient>>

\* _wait_for_receipt(tx_hash, timeout): start_time = time.time()
WaitForReceipt ==
    /\ wr_pc = "idle"
    /\ wr_timeout' \in {0, 1, ReceiptTimeout}
    /\ wr_now' = 0
    /\ wr_pc' = "while"
    /\ UNCHANGED <<wr_seen, wr_res, exceptReceipt>>

\* while time.time() - start_time < timeout; after the loop,
\* raise LatticeError("Transaction timeout: ...")
WhileWithinTimeout ==
    /\ wr_pc = "while"
    /\ IF wr_now < wr_timeout
       THEN /\ wr_pc' = "poll"
            /\ UNCHANGED wr_res
       ELSE /\ wr_pc' = "done"
            /\ wr_res' = Raise("LatticeError", "Transaction timeout")
    /\ UNCHANGED <<wr_now, wr_seen, wr_timeout, exceptReceipt>>

\* try: receipt = self._rpc_call(...); if receipt: return receipt
\* except LatticeError: pass
PollReceipt ==
    /\ wr_pc = "poll"
    /\ \E outcome \in PollOutcomes, took \in 0..PollTime :
         /\ wr_seen' = Append(wr_seen, outcome)
         /\ wr_now' = wr_now + took
         /\ IF outcome.ok /\ truthy(outcome.val)
            THEN /\ wr_pc' = "done"
                 /\ wr_res' = Ok(outcome.val)
            ELSE /\ wr_pc' = "sleep"
                 /\ UNCHANGED wr_res
    /\ UNCHANGED <<wr_timeout, exceptReceipt>>

\* time.sleep(1)
Sleep ==
    /\ wr_pc = "sleep"
    /\ \E slept \in 1..2 : wr_now' = wr_now + slept
    /\ wr_pc' = "while"
    /\ UNCHANGED <<wr_seen, wr_res, wr_timeout, exceptReceipt>>

ReceiptNext ==
    \/ WaitForReceipt
    \/ WhileWithinTimeout
    \/ PollReceipt
    \/ Sleep

SpecReceipt == ReceiptInit /\ [][ReceiptNext]_vars

\* The thread that runs _wait_for_receipt keeps being scheduled.
SpecReceiptFair == SpecReceipt /\ WF_vars(ReceiptNext)

\* A poll that gave a receipt that is not empty.
NonEmptyReceipt(outcome) ==
    outcome.ok /\ outcome.val.is = "dict" /\ outcome.val.size > 0

ReceiptWaitSafe ==
    /\ \A k \in 1..(Len(wr_seen) - 1) : ~NonEmptyReceipt(wr_seen[k])
    /\ (wr_seen # <<>> /\ NonEmptyReceipt(wr_seen[Len(wr_seen)])) =>
          /\ wr_pc = "done"
          /\ wr_res.ok
          /\ wr_res.val = wr_seen[Len(wr_seen)].val
    /\ (wr_pc = "done" /\ (wr_seen = <<>> \/ ~NonEmptyReceipt(wr_seen[Len(wr_seen)]))) =>
          /\ wr_res = Raise("LatticeError", "Transaction timeout")
          /\ wr_now >= wr_timeout
    /\ (wr_pc \in {"sleep", "poll"}) => wr_res = <<>>

====
